---------------------------- MODULE Spec2Model ----------------------------
(***************************************************************************)
(* Verification model of fhir-snapshot-generator's cache coordination and  *)
(* of its snapshot derivation engine.                                      *)
(*                                                                         *)
(* Part I   singleFlight (utils/misc/singleflight): the in-memory promise  *)
(*          map of one Node process and the on-disk lockfile protocol      *)
(*          shared by several processes.  Every fs call that is awaited is *)
(*          one atomic step; the synchronous code between two awaits is    *)
(*          part of the step that follows the first await.                 *)
(* Part II  FhirSnapshotGenerator's snapshot cache: cache modes, the       *)
(*          corruption tolerant read, the temp-file + no-overwrite write,  *)
(*          create() pre-caching and getSnapshot.                          *)
(* Part III the derivation engine: toTree and fromTree, ensureBranch and   *)
(*          ensureChild, the monopoly shortcut, applyDiffs.                *)
(* Part IV  functions on their own: resolveBasePackage, mergeElement,      *)
(*          rewriteElementPaths and rewriteNodePaths.                      *)
(* Part V   the DefinitionFetcher of one generate() call and the element   *)
(*          objects it caches and hands to the engine.                     *)
(*                                                                         *)
(* fs.move(tmp, dest, {overwrite:false}) is modelled as the source uses    *)
(* it: an atomic create-if-absent that fails when dest exists.             *)
(***************************************************************************)
EXTENDS Integers, Sequences, FiniteSets, TLC

(***************************************************************************)
(* Part I : singleFlight                                                   *)
(***************************************************************************)

\* Callers of singleFlight (all use the same key) and the Node process each
\* one runs in: c1 and c2 share a process, c3 runs in another one.  p0 is a
\* process that died before the others started and may have left its lock.
Callers == {"c1", "c2", "c3"}
Procs == {"p0", "p1", "p2"}
ProcOf(c) == IF c = "c3" THEN "p2" ELSE "p1"
\* os.hostname(): p1 and p2 run on one machine, p0 ran on another one.
getHostname(p) == IF p = "p0" THEN "h2" ELSE "h1"

\* Calls of singleFlight each caller may make.
MaxCalls == 2

\* Clock: the milliseconds that pass in one Tick; a measured duration stops
\* growing at MaxAge (it is then beyond the TTL and the wait timeout).
TickMs == 190000
MaxAge == TickMs

DISK_LOCK_TTL_MS == 3 * 60 * 1000
LOCK_WAIT_TIMEOUT_MS == DISK_LOCK_TTL_MS + 10000

NoPromise == "none"
NoFile == "absent"
NoLock == [pid |-> "none", age |-> 0]

VARIABLES
  inflightPromises, \* [Procs -> caller owning the registered promise | NoPromise]
  lockFile,         \* NoLock | [pid, age]: content of <cacheFilePath>.lock
  cacheFile,        \* NoFile | caller whose generator result is stored
  alive,            \* [Procs -> BOOLEAN] the process exists (process.kill(pid, 0))
  options,          \* [disk, getCached]: cacheFilePath / getCached are passed
  pc,               \* [Callers -> position inside singleFlight]
  attempt,          \* [Callers -> 1..2] which tryAcquireDiskLock call is running
  waited,           \* [Callers -> ms] Date.now() - startTime in waitForExternalLock
  awaiting,         \* [Callers -> caller whose promise is awaited | NoPromise]
  outcome,          \* [Callers -> generator outcome while the lock is released]
  result,           \* [Callers -> how the last call ended and with whose value]
  calls,            \* [Callers -> calls started]
  active,           \* the callers that take part in this run
  overlapped,       \* ghost: [Callers -> callers in flight during the current call]
  outlasted         \* ghost: time has passed while some caller held the lock

sfVars == <<inflightPromises, lockFile, cacheFile, alive, options, pc, attempt,
            waited, awaiting, outcome, result, calls, active, overlapped,
            outlasted>>

\* Part II state (described there).
VARIABLES
  engines,          \* the FhirSnapshotGenerator instances that take part in this run
  cacheMode,        \* [Engines -> "lazy" | "ensure" | "rebuild" | "none"]
  sds,              \* [ProfileSet -> the StructureDefinition in the source package]
  files,            \* [CachePaths -> content of the file at that path]
  cacheDir,         \* the snapshot cache directory of the package exists
  tmpFiles,         \* [Engines -> the temp file of its saveSnapshotToCache exists]
  epc,              \* [Engines -> "new" | "rebuild" | "precache" | "ready" | "call"]
  stack,            \* [Engines -> running getSnapshotByMeta calls, innermost last]
  queue,            \* [Engines -> allSds that create() has not visited yet]
  errors,           \* [Engines -> profiles whose error create() collected]
  logged,           \* [Engines -> logger.error calls made by create()]
  gets,             \* [Engines -> getSnapshot calls started]
  lastCall,         \* ghost: [Engines -> how the last outermost call ended]
  writers           \* ghost: [ProfileSet -> engines that moved a file onto the path]

cacheVars == <<engines, cacheMode, sds, files, cacheDir, tmpFiles, epc, stack,
               queue, errors, logged, gets, lastCall, writers>>

\* Part III state (described there).
VARIABLES
  snapshotIn,       \* the elements of the stored snapshot the derivation starts from
  differential,     \* the entries of the differential, in order
  workingSnapshot,  \* updatedElements of applyDiffs and of ensureBranch
  diffIndex,        \* the entry the loop of applyDiffs is at
  rewriteMap,       \* pathRewriteMap of applyDiffs
  dpc,              \* "new" | "loop" | "branch" | "merge" | "done" | "threw":
                    \* where applyDiffs stands
  segIndex,         \* i of the loop of ensureBranch (counted from 1)
  canonicalParentId,\* canonicalParentId of ensureBranch
  calledParent,     \* ghost: the parentId of the last call of ensureChild
  lastStep,         \* ghost: "ensureChild" | "merge": what wrote workingSnapshot
  branched,         \* ghost: ensureBranch has run for the entry at diffIndex
  rpc,              \* "none" | "tree" | "flat" | "threw": where the round trip stands
  compare,          \* the sequence the round trip started from
  treeOut,          \* toTree(compare)
  roundtrip         \* fromTree(treeOut)

diffVars == <<snapshotIn, differential, workingSnapshot, diffIndex, rewriteMap,
              dpc, segIndex, canonicalParentId, calledParent, lastStep, branched,
              rpc, compare, treeOut, roundtrip>>

\* Part IV state (described there).
VARIABLES
  sourcePackage,    \* [id, version]: the package resolveBasePackage is asked about
  dependencies,     \* fpe.getDirectDependencies(sourcePackage)
  fhirVersions,     \* fhirVersions of the package manifest, <<>> when left out
  baseFhirPackage   \* NotResolved | the outcome of resolveBasePackage

pkgVars == <<sourcePackage, dependencies, fhirVersions, baseFhirPackage>>

VARIABLES
  mergeBase,        \* the element mergeElement is applied to
  mergeDiff,        \* the diff element merged into it
  mergeResult,    \* the element mergeElement returned
  mpc               \* "new" | "merged" | "threw"

mergeVars == <<mergeBase, mergeDiff, mergeResult, mpc>>

VARIABLES
  branch,           \* the elements of the branch that is rewritten
  fromPrefix,        \* the id in the branch that is replaced
  viaPrefix,        \* the prefix the first of two calls rewrites to
  toPrefix,        \* the prefix the last call rewrites to
  onceElements,     \* rewriteElementPaths(branch, viaPrefix, fromPrefix)
  onceNode,         \* rewriteNodePaths of the branch's tree, the same way
  twiceElements,    \* rewriteElementPaths(onceElements, toPrefix, viaPrefix)
  twiceNode,        \* rewriteNodePaths(onceNode, toPrefix, viaPrefix)
  directElements,   \* rewriteElementPaths(branch, toPrefix, fromPrefix)
  directNode,       \* rewriteNodePaths of the branch's tree, the same way
  wpc               \* [chain, direct]: the calls made so far

rewriteVars == <<branch, fromPrefix, viaPrefix, toPrefix, onceElements, onceNode,
                 twiceElements, twiceNode, directElements, directNode, wpc>>

\* Part V state (described there).
VARIABLES
  heap,             \* the ElementDefinition objects made so far, by place
  elementCache,     \* [FetchKeys -> places of the cached array | Missing]
  firstStored,      \* [FetchKeys -> what elementCache.set stored first | NoEntry]
  updatedElements,  \* the places of the working snapshot of applyDiffs
  diffIds,          \* the ids of the differential's entries
  diffAt,           \* index of the entry applyDiffs is at
  lastFetch,        \* [key, refs, hit]: the last call of the fetcher, its result
  fpc               \* "new" | "applying" | "done" | "threw"

fetchVars == <<heap, elementCache, firstStored, updatedElements, diffIds, diffAt,
               lastFetch, fpc>>

libVars == <<pkgVars, mergeVars, rewriteVars, fetchVars>>

vars == <<sfVars, cacheVars, diffVars, libVars>>

NoResult == [how |-> "none", value |-> "none"]

InFlight(c) == pc[c] \notin {"idle", "crashed"}

\* tryAcquireDiskLock has returned true to c (line 274 or 290) and its
\* releaseDiskLock (line 306) has not returned yet.
HoldsLock(c) == options.disk /\ pc[c] \in {"generating", "relRead", "relRemove"}

Sat(ms) == IF ms + TickMs > MaxAge THEN MaxAge ELSE ms + TickMs

\* createLockContent: {pid, timestamp, hostname}; the hostname is that of
\* pid, the timestamp is kept as the age of the content.
createLockContent(c) == [pid |-> ProcOf(c), age |-> 0]

\* isLockStale without the age test of lines 70-73.
isLockStaleNoTTL(p) ==
  IF lockFile = NoLock THEN TRUE
  ELSE IF getHostname(lockFile.pid) = getHostname(p) THEN ~alive[lockFile.pid]
  ELSE FALSE

\* isLockStale(lockPath) as evaluated by process p.
isLockStale(p) ==
  IF lockFile = NoLock THEN TRUE                       \* readFile throws
  ELSE IF lockFile.age > DISK_LOCK_TTL_MS THEN TRUE
  ELSE IF getHostname(lockFile.pid) = getHostname(p) THEN ~alive[lockFile.pid]
  ELSE FALSE

\* The state in which every caller has made n calls that have all returned.
SFInitAfter(n) ==
  /\ inflightPromises = [p \in Procs |-> NoPromise]
  /\ lockFile \in {NoLock, [pid |-> "p0", age |-> 0]}
  /\ cacheFile = NoFile
  /\ alive = [p \in Procs |-> p # "p0"]
  /\ active \in {{"c1", "c2"}, {"c1", "c3"}}
  /\ options \in {o \in [disk : BOOLEAN, getCached : BOOLEAN] : o.disk \/ ~o.getCached}
  /\ pc = [c \in Callers |-> "idle"]
  /\ attempt = [c \in Callers |-> 1]
  /\ waited = [c \in Callers |-> 0]
  /\ awaiting = [c \in Callers |-> NoPromise]
  /\ outcome = [c \in Callers |-> "none"]
  /\ result = [c \in Callers |-> NoResult]
  /\ calls = [c \in Callers |-> n]
  /\ overlapped = [c \in Callers |-> {}]
  /\ outlasted = FALSE

SFInit == SFInitAfter(0)

\* Lines 299-312: the execution promise is created (the generator starts
\* synchronously) and registered under the key.
StartExecution(c) ==
  /\ inflightPromises' = [inflightPromises EXCEPT ![ProcOf(c)] = c]
  /\ pc' = [pc EXCEPT ![c] = "generating"]

\* Lines 258-274: layer 1, then the start of layer 2.  Entered by a call and
\* by the recursive call of line 294.
Enter(c) ==
  IF inflightPromises[ProcOf(c)] # NoPromise
  THEN /\ awaiting' = [awaiting EXCEPT ![c] = inflightPromises[ProcOf(c)]]
       /\ pc' = [pc EXCEPT ![c] = "awaiting"]
       /\ UNCHANGED <<inflightPromises, attempt>>
  ELSE IF options.disk
  THEN /\ pc' = [pc EXCEPT ![c] = "acqCheck"]
       /\ attempt' = [attempt EXCEPT ![c] = 1]
       /\ UNCHANGED <<inflightPromises, awaiting>>
  ELSE /\ StartExecution(c)
       /\ UNCHANGED <<awaiting, attempt>>

\* singleFlight(options) is called.
Call(c) ==
  /\ UNCHANGED <<cacheVars, diffVars, libVars, outlasted>>
  /\ c \in active
  /\ pc[c] = "idle"
  /\ alive[ProcOf(c)]
  /\ calls[c] < MaxCalls
  /\ Enter(c)
  /\ calls' = [calls EXCEPT ![c] = @ + 1]
  /\ result' = [result EXCEPT ![c] = NoResult]
  /\ overlapped' = [x \in Callers |->
                      IF x = c THEN {y \in Callers \ {c} : InFlight(y)}
                      ELSE overlapped[x] \ {c}]
  /\ UNCHANGED <<lockFile, cacheFile, alive, options, waited, outcome, active>>

\* tryAcquireDiskLock returned false (lines 129, 159, 164, 171).
AcquireFailed(c) ==
  IF attempt[c] = 1
  THEN \* line 278: waitForExternalLock starts
       /\ pc' = [pc EXCEPT ![c] = "waitCache"]
       /\ waited' = [waited EXCEPT ![c] = 0]
       /\ attempt' = [attempt EXCEPT ![c] = 2]
       /\ UNCHANGED <<inflightPromises, awaiting>>
  ELSE \* line 294: return singleFlight(options)
       /\ Enter(c)
       /\ UNCHANGED waited

\* tryAcquireDiskLock, lines 127-128: await fs.exists(lockPath), then
\* await isLockStale(lockPath), whose read decides.
AcquireCheck(c) ==
  /\ UNCHANGED <<cacheVars, diffVars, libVars, outlasted>>
  /\ pc[c] = "acqCheck"
  /\ IF lockFile = NoLock
     THEN /\ pc' = [pc EXCEPT ![c] = "acqMove"]
          /\ UNCHANGED <<inflightPromises, awaiting, attempt, waited>>
     ELSE IF isLockStale(ProcOf(c))
     THEN /\ pc' = [pc EXCEPT ![c] = "acqRemove"]
          /\ UNCHANGED <<inflightPromises, awaiting, attempt, waited>>
     ELSE AcquireFailed(c)
  /\ UNCHANGED <<lockFile, cacheFile, alive, options, outcome, result, calls,
                 active, overlapped>>

\* tryAcquireDiskLock, line 133: await fs.remove(lockPath).
AcquireRemove(c) ==
  /\ UNCHANGED <<cacheVars, diffVars, libVars, outlasted>>
  /\ pc[c] = "acqRemove"
  /\ lockFile' = NoLock
  /\ pc' = [pc EXCEPT ![c] = "acqMove"]
  /\ UNCHANGED <<inflightPromises, cacheFile, alive, options, attempt, waited,
                 awaiting, outcome, result, calls, active, overlapped>>

\* tryAcquireDiskLock, lines 140-168: the temp file is written and moved
\* onto the lock path without overwrite.
AcquireMove(c) ==
  /\ UNCHANGED <<cacheVars, diffVars, libVars, outlasted>>
  /\ pc[c] = "acqMove"
  /\ IF lockFile = NoLock
     THEN /\ lockFile' = createLockContent(c)
          /\ StartExecution(c)
          /\ UNCHANGED <<awaiting, attempt, waited>>
     ELSE /\ AcquireFailed(c)
          /\ UNCHANGED lockFile
  /\ UNCHANGED <<cacheFile, alive, options, outcome, result, calls, active, overlapped>>

\* What follows waitForExternalLock (lines 280-290).
AfterWait(c, cacheAppeared) ==
  pc' = [pc EXCEPT ![c] = IF cacheAppeared /\ options.getCached THEN "getCached"
                           ELSE "acqCheck"]

\* waitForExternalLock, line 205: await fs.exists(cacheFilePath).  The loop
\* test of line 203 passed just before: at the start, or after the sleep.
WaitCache(c) ==
  /\ UNCHANGED <<cacheVars, diffVars, libVars, outlasted>>
  /\ pc[c] = "waitCache"
  /\ IF cacheFile # NoFile THEN AfterWait(c, TRUE)
     ELSE pc' = [pc EXCEPT ![c] = "waitLock"]
  /\ UNCHANGED <<inflightPromises, lockFile, cacheFile, alive, options, attempt,
                 waited, awaiting, outcome, result, calls, active, overlapped>>

\* waitForExternalLock, line 210: the lock is looked up and judged.
WaitLock(c) ==
  /\ UNCHANGED <<cacheVars, diffVars, libVars, outlasted>>
  /\ pc[c] = "waitLock"
  /\ IF isLockStale(ProcOf(c)) THEN AfterWait(c, FALSE)
     ELSE pc' = [pc EXCEPT ![c] = "waitSleep"]
  /\ UNCHANGED <<inflightPromises, lockFile, cacheFile, alive, options, attempt,
                 waited, awaiting, outcome, result, calls, active, overlapped>>

\* waitForExternalLock, lines 215 and 203: the poll interval has passed and
\* the loop tests the timeout.
WaitSleep(c) ==
  /\ UNCHANGED <<cacheVars, diffVars, libVars, outlasted>>
  /\ pc[c] = "waitSleep"
  /\ IF waited[c] < LOCK_WAIT_TIMEOUT_MS THEN pc' = [pc EXCEPT ![c] = "waitCache"]
     ELSE AfterWait(c, FALSE)
  /\ UNCHANGED <<inflightPromises, lockFile, cacheFile, alive, options, attempt,
                 waited, awaiting, outcome, result, calls, active, overlapped>>

\* Lines 280-286: await getCached(), which reads the file at cacheFilePath.
GetCached(c) ==
  /\ UNCHANGED <<cacheVars, diffVars, libVars, outlasted>>
  /\ pc[c] = "getCached"
  /\ IF cacheFile # NoFile
     THEN /\ result' = [result EXCEPT ![c] = [how |-> "cached", value |-> cacheFile]]
          /\ pc' = [pc EXCEPT ![c] = "idle"]
     ELSE /\ pc' = [pc EXCEPT ![c] = "acqCheck"]
          /\ UNCHANGED result
  /\ UNCHANGED <<inflightPromises, lockFile, cacheFile, alive, options, attempt,
                 waited, awaiting, outcome, calls, active, overlapped>>

\* Variant of Settle that keeps the promise of a failed execution registered.
SettleKeepsRejected(c, out) ==
  /\ result' = [x \in Callers |->
       IF x = c THEN [how |-> IF out = "ok" THEN "generator" ELSE "threw", value |-> c]
       ELSE IF pc[x] = "awaiting" /\ awaiting[x] = c
       THEN [how |-> IF out = "ok" THEN "inflight" ELSE "rejected", value |-> c]
       ELSE result[x]]
  /\ pc' = [x \in Callers |->
       IF x = c \/ (pc[x] = "awaiting" /\ awaiting[x] = c) THEN "idle" ELSE pc[x]]
  /\ awaiting' = [x \in Callers |-> IF awaiting[x] = c THEN NoPromise ELSE awaiting[x]]
  /\ inflightPromises' = IF out = "ok"
                         THEN [inflightPromises EXCEPT ![ProcOf(c)] = NoPromise]
                         ELSE inflightPromises
  /\ outcome' = [outcome EXCEPT ![c] = "none"]

\* The execution promise of c settles (lines 303-320): every caller awaiting
\* it resumes with its value or its rejection, c returns or throws, and the
\* finally block deletes the key from the map.
Settle(c, out) ==
  /\ result' = [x \in Callers |->
       IF x = c THEN [how |-> IF out = "ok" THEN "generator" ELSE "threw", value |-> c]
       ELSE IF pc[x] = "awaiting" /\ awaiting[x] = c
       THEN [how |-> IF out = "ok" THEN "inflight" ELSE "rejected", value |-> c]
       ELSE result[x]]
  /\ pc' = [x \in Callers |->
       IF x = c \/ (pc[x] = "awaiting" /\ awaiting[x] = c) THEN "idle" ELSE pc[x]]
  /\ awaiting' = [x \in Callers |-> IF awaiting[x] = c THEN NoPromise ELSE awaiting[x]]
  /\ inflightPromises' = [inflightPromises EXCEPT ![ProcOf(c)] = NoPromise]
  /\ outcome' = [outcome EXCEPT ![c] = "none"]

\* The generator passed in the options: on success it has stored its result
\* at cacheFilePath without replacing a file that is already there.
generator(c, out) ==
  cacheFile' = IF out = "ok" /\ options.disk /\ cacheFile = NoFile THEN c ELSE cacheFile

\* Variant of GeneratorEnds without the finally block of lines 303-308: a
\* generator that throws leaves the call without releaseDiskLock.
GeneratorEndsNoFinally(c) ==
  /\ UNCHANGED <<cacheVars, diffVars, libVars, outlasted>>
  /\ pc[c] = "generating"
  /\ \E out \in {"ok", "threw"} :
       /\ generator(c, out)
       /\ IF options.disk /\ out = "ok"
          THEN /\ outcome' = [outcome EXCEPT ![c] = out]
               /\ pc' = [pc EXCEPT ![c] = "relRead"]
               /\ UNCHANGED <<result, awaiting, inflightPromises>>
          ELSE Settle(c, out)
  /\ UNCHANGED <<lockFile, alive, options, attempt, waited, calls, active, overlapped>>

\* Line 302: await generator() completes, with a value or by throwing.
GeneratorEnds(c) ==
  /\ UNCHANGED <<cacheVars, diffVars, libVars, outlasted>>
  /\ pc[c] = "generating"
  /\ \E out \in {"ok", "threw"} :
       /\ generator(c, out)
       /\ IF options.disk
          THEN /\ outcome' = [outcome EXCEPT ![c] = out]
               /\ pc' = [pc EXCEPT ![c] = "relRead"]
               /\ UNCHANGED <<result, awaiting, inflightPromises>>
          ELSE Settle(c, out)
  /\ UNCHANGED <<lockFile, alive, options, attempt, waited, calls, active, overlapped>>

\* releaseDiskLock, lines 182-185: the lock is read and compared.
ReleaseRead(c) ==
  /\ UNCHANGED <<cacheVars, diffVars, libVars, outlasted>>
  /\ pc[c] = "relRead"
  /\ IF lockFile # NoLock /\ lockFile.pid = ProcOf(c)
     THEN /\ pc' = [pc EXCEPT ![c] = "relRemove"]
          /\ UNCHANGED <<result, awaiting, inflightPromises, outcome>>
     ELSE Settle(c, outcome[c])
  /\ UNCHANGED <<lockFile, cacheFile, alive, options, attempt, waited, calls,
                 active, overlapped>>

\* releaseDiskLock, line 186: await fs.remove(lockPath).
ReleaseRemove(c) ==
  /\ UNCHANGED <<cacheVars, diffVars, libVars, outlasted>>
  /\ pc[c] = "relRemove"
  /\ lockFile' = NoLock
  /\ Settle(c, outcome[c])
  /\ UNCHANGED <<cacheFile, alive, options, attempt, waited, calls, active, overlapped>>

\* A process dies: its callers stop where they are and its map is gone; what
\* it left on disk stays.
Crash(p) ==
  /\ UNCHANGED <<cacheVars, diffVars, libVars, outlasted>>
  /\ alive[p]
  /\ \E c \in Callers : ProcOf(c) = p /\ InFlight(c)
  /\ alive' = [alive EXCEPT ![p] = FALSE]
  /\ pc' = [c \in Callers |-> IF ProcOf(c) = p THEN "crashed" ELSE pc[c]]
  /\ inflightPromises' = [inflightPromises EXCEPT ![p] = NoPromise]
  /\ UNCHANGED <<lockFile, cacheFile, options, attempt, waited, awaiting,
                 outcome, result, calls, active, overlapped>>

\* Time passes: every measured duration grows.
Tick ==
  /\ UNCHANGED <<cacheVars, diffVars, libVars>>
  /\ outlasted' = (outlasted \/ \E c \in Callers : HoldsLock(c))
  /\ lockFile' = IF lockFile = NoLock THEN NoLock
                 ELSE [lockFile EXCEPT !.age = Sat(@)]
  /\ waited' = [c \in Callers |->
                  IF pc[c] \in {"waitCache", "waitLock", "waitSleep"}
                  THEN Sat(waited[c]) ELSE waited[c]]
  /\ UNCHANGED <<inflightPromises, cacheFile, alive, options, pc, attempt,
                 awaiting, outcome, result, calls, active, overlapped>>

Step(c) ==
  \/ AcquireCheck(c) \/ AcquireRemove(c) \/ AcquireMove(c)
  \/ WaitCache(c) \/ WaitLock(c) \/ WaitSleep(c) \/ GetCached(c)
  \/ GeneratorEnds(c) \/ ReleaseRead(c) \/ ReleaseRemove(c)

SFNext ==
  \/ \E c \in Callers : Call(c)
  \/ \E c \in Callers : Step(c)
  \/ \E p \in Procs : Crash(p)
  \/ Tick

(***************************************************************************)
(* Part II : FhirSnapshotGenerator, the snapshot cache                     *)
(*                                                                         *)
(* Engines are FhirSnapshotGenerator instances, each in a process of its   *)
(* own, over the same package cache directory.  The context holds one      *)
(* package with two profiles: f1 constrains a base type, f2 constrains f1. *)
(* A call of getSnapshotByMeta or ensureSnapshotCached is a frame on the   *)
(* engine's stack; generate() of f2 pushes the frame that fetches f1.      *)
(***************************************************************************)

Engines == {"e1", "e2"}
Profiles == <<"f1", "f2">>
ProfileSet == {"f1", "f2"}

\* The files of the package's snapshot cache directory (line 87): the cache
\* files of the profiles (getCacheFilePath) and a file under another name.
StrayFile == "stray"
CachePaths == ProfileSet \cup {StrayFile}
Modes == {"lazy", "ensure", "rebuild", "none"}

\* sd.baseDefinition: the profile's base, "base" standing for a base type.
BaseOf(f) == IF f = "f2" THEN "f1" ELSE "base"

\* getSnapshot calls each engine may make.
MaxGets == 2

\* What a file at a cache path can hold.  "generated" and "stored" are the
\* JSON of a StructureDefinition with a snapshot (built by applyDiffs, or
\* shipped in the source package); "dummy" is the JSON of another resource;
\* "noType" is {}; "null" is the JSON text null; "empty" has no bytes,
\* "blank" only whitespace, "truncated" is the prefix of a JSON text.
Absent == "absent"
Contents == {"generated", "stored", "dummy", "noType", "null", "empty", "blank",
             "truncated"}

\* Line 214: !raw || raw.trim().length === 0.
IsBlank(raw) == raw \in {"empty", "blank"}

\* Line 219: JSON.parse(raw); the value parsed is named like the text.
JSONparse(raw) == IF raw \in {"truncated", "empty", "blank"} THEN "SyntaxError" ELSE raw

\* Line 376: if (cached).
Truthy(v) == v # "null"

\* Lines 322 and 340: .snapshot?.element is there and not empty.
HasSnapshot(v) == v \in {"generated", "stored"}

Parses(raw) == raw \in Contents /\ JSONparse(raw) # "SyntaxError"

\* The StructureDefinitions a source package can hold for a profile.
SdKinds == {k \in [differential : BOOLEAN, applies : BOOLEAN, snapshot : BOOLEAN] :
              ~k.differential => (~k.applies /\ k.snapshot)}

NoCall == [f |-> "none", kind |-> "none", seen |-> "unread", ran |-> FALSE,
           wrote |-> FALSE, how |-> "none", value |-> "none"]

\* The cache read whatever the mode.
ReadsCacheAlways(e) == TRUE

\* The test of the mode inverted.
ReadsCacheInverted(e) == cacheMode[e] = "none"

\* Lines 371 and 390: the cache is read unless the mode is 'none'.
ReadsCache(e) == cacheMode[e] # "none"

\* The cache written whatever the mode.
WritesCacheAlways(e) == TRUE

\* The cache written in 'lazy' mode only.
WritesCacheLazyOnly(e) == cacheMode[e] = "lazy"

\* Lines 378 and 395: the cache is written unless the mode is 'none'.
WritesCache(e) == cacheMode[e] # "none"

Top(e) == stack[e][Len(stack[e])]
Below(e) == SubSeq(stack[e], 1, Len(stack[e]) - 1)
At(e, where) == e \in engines /\ stack[e] # <<>> /\ Top(e).pc = where
SetTop(e, fr) == stack' = [stack EXCEPT ![e] = Append(Below(e), fr)]

\* getSnapshotByMeta(metadata) / ensureSnapshotCached of profile f starts.
NewFrame(e, f, kind) ==
  [f |-> f, kind |-> kind, pc |-> IF ReadsCache(e) THEN "exists" ELSE "generate",
   seen |-> "unread", ran |-> FALSE, wrote |-> FALSE, base |-> FALSE,
   value |-> "none", failed |-> FALSE]

\* The innermost call returns or throws.  A fetch of the base (line 322)
\* hands its snapshot to generate() of the caller; ensureSnapshotCached
\* returns into the loop of create() (lines 105-112); getSnapshot returns to
\* the application.
Finish(e, fr, how, value) ==
  IF Below(e) # <<>>
  THEN /\ stack' = [stack EXCEPT ![e] =
            Append(SubSeq(Below(e), 1, Len(Below(e)) - 1),
                   [Below(e)[Len(Below(e))] EXCEPT
                      !.pc = "applyDiffs",
                      !.base = (how # "threw" /\ HasSnapshot(value))])]
       /\ UNCHANGED <<epc, errors, lastCall>>
  ELSE /\ stack' = [stack EXCEPT ![e] = <<>>]
       /\ lastCall' = [lastCall EXCEPT ![e] =
            [f |-> fr.f, kind |-> fr.kind, seen |-> fr.seen, ran |-> fr.ran,
             wrote |-> fr.wrote, how |-> how, value |-> value]]
       /\ IF fr.kind = "ensure"
          THEN /\ errors' = [errors EXCEPT ![e] =
                    IF how = "threw" THEN Append(@, fr.f) ELSE @]
               /\ UNCHANGED epc
          ELSE /\ epc' = [epc EXCEPT ![e] = "ready"]
               /\ UNCHANGED errors

\* create(config), lines 61-96: the instance is built; 'rebuild' goes on to
\* delete the cache, 'ensure' to the walkthrough of line 101, and the other
\* modes return the instance.
Create(e) ==
  /\ e \in engines
  /\ epc[e] = "new"
  /\ epc' = [epc EXCEPT ![e] = IF cacheMode[e] = "rebuild" THEN "rebuild"
                               ELSE IF cacheMode[e] = "ensure" THEN "precache"
                               ELSE "ready"]
  /\ queue' = [queue EXCEPT ![e] = IF cacheMode[e] \in {"rebuild", "ensure"}
                                   THEN Profiles ELSE <<>>]
  /\ UNCHANGED <<engines, cacheMode, sds, files, cacheDir, tmpFiles, stack,
                 errors, logged, gets, lastCall, writers>>
  /\ UNCHANGED <<sfVars, diffVars, libVars>>

\* 'rebuild' that goes to the walkthrough without deleting the directory.
RebuildRemoveSkipped(e) ==
  /\ e \in engines
  /\ epc[e] = "rebuild"
  /\ epc' = [epc EXCEPT ![e] = "precache"]
  /\ UNCHANGED <<engines, cacheMode, sds, files, cacheDir, tmpFiles, stack, queue,
                 errors, logged, gets, lastCall, writers>>
  /\ UNCHANGED <<sfVars, diffVars, libVars>>

\* create(), lines 89-93: await fs.exists(snapshotCacheDir), then
\* fs.removeSync deletes the directory with everything in it.
RebuildRemove(e) ==
  /\ e \in engines
  /\ epc[e] = "rebuild"
  /\ files' = [f \in CachePaths |-> Absent]
  /\ tmpFiles' = [x \in Engines |-> FALSE]
  /\ cacheDir' = FALSE
  /\ epc' = [epc EXCEPT ![e] = "precache"]
  /\ UNCHANGED <<engines, cacheMode, sds, stack, queue, errors, logged, gets,
                 lastCall, writers>>
  /\ UNCHANGED <<sfVars, diffVars, libVars>>

\* The loop without its try/catch: the first error ends the walkthrough.
PrecacheNextAborting(e) ==
  /\ e \in engines
  /\ epc[e] = "precache"
  /\ stack[e] = <<>>
  /\ IF queue[e] # <<>> /\ errors[e] = <<>>
     THEN /\ stack' = [stack EXCEPT ![e] = <<NewFrame(e, Head(queue[e]), "ensure")>>]
          /\ queue' = [queue EXCEPT ![e] = Tail(@)]
          /\ UNCHANGED <<epc, logged>>
     ELSE /\ epc' = [epc EXCEPT ![e] = "ready"]
          /\ logged' = [logged EXCEPT ![e] = IF errors[e] # <<>> THEN @ + 1 ELSE @]
          /\ UNCHANGED <<stack, queue>>
  /\ UNCHANGED <<engines, cacheMode, sds, files, cacheDir, tmpFiles, errors,
                 gets, lastCall, writers>>
  /\ UNCHANGED <<sfVars, diffVars, libVars>>

\* create(), lines 103-121: the loop calls ensureSnapshotCached for the next
\* StructureDefinition, or ends: the errors collected are logged in one
\* logger.error call and the instance is returned.
PrecacheNext(e) ==
  /\ e \in engines
  /\ epc[e] = "precache"
  /\ stack[e] = <<>>
  /\ IF queue[e] # <<>>
     THEN /\ stack' = [stack EXCEPT ![e] = <<NewFrame(e, Head(queue[e]), "ensure")>>]
          /\ queue' = [queue EXCEPT ![e] = Tail(@)]
          /\ UNCHANGED <<epc, logged>>
     ELSE /\ epc' = [epc EXCEPT ![e] = "ready"]
          /\ logged' = [logged EXCEPT ![e] = IF errors[e] # <<>> THEN @ + 1 ELSE @]
          /\ UNCHANGED <<stack, queue>>
  /\ UNCHANGED <<engines, cacheMode, sds, files, cacheDir, tmpFiles, errors,
                 gets, lastCall, writers>>
  /\ UNCHANGED <<sfVars, diffVars, libVars>>

\* getSnapshot(identifier), lines 403-419, and the head of getSnapshotByMeta,
\* lines 360-371: a base type is answered from the source package, a profile
\* goes to the cache or to generate().
GetSnapshot(e, t) ==
  /\ e \in engines
  /\ epc[e] = "ready"
  /\ gets[e] < MaxGets
  /\ gets' = [gets EXCEPT ![e] = @ + 1]
  /\ IF t = "base"
     THEN /\ lastCall' = [lastCall EXCEPT ![e] =
               [NoCall EXCEPT !.f = t, !.kind = "get", !.how = "source",
                              !.value = "stored"]]
          /\ UNCHANGED <<epc, stack>>
     ELSE /\ stack' = [stack EXCEPT ![e] = <<NewFrame(e, t, "get")>>]
          /\ epc' = [epc EXCEPT ![e] = "call"]
          /\ UNCHANGED lastCall
  /\ UNCHANGED <<engines, cacheMode, sds, files, cacheDir, tmpFiles, queue,
                 errors, logged, writers>>
  /\ UNCHANGED <<sfVars, diffVars, libVars>>

\* getSnapshotFromCache, line 207: await fs.exists(cacheFilePath).
CacheExists(e) ==
  /\ At(e, "exists")
  /\ LET fr == Top(e) IN
       IF files[fr.f] = Absent
       THEN SetTop(e, [fr EXCEPT !.pc = "generate", !.seen = Absent])
       ELSE SetTop(e, [fr EXCEPT !.pc = "readFile"])
  /\ UNCHANGED <<engines, cacheMode, sds, files, cacheDir, tmpFiles, epc, queue,
                 errors, logged, gets, lastCall, writers>>
  /\ UNCHANGED <<sfVars, diffVars, libVars>>

\* getSnapshotFromCache, lines 213-231, and lines 376 / 393: await
\* fs.readFile, the emptiness test and JSON.parse.  A file that has vanished
\* makes readFile throw an error that is not a parse error: it is rethrown.
CacheRead(e) ==
  /\ At(e, "readFile")
  /\ LET fr == Top(e)
         raw == files[fr.f]
         seen == [fr EXCEPT !.seen = raw]
     IN  IF raw = Absent
         THEN Finish(e, seen, "threw", "none")
         ELSE IF IsBlank(raw) \/ JSONparse(raw) = "SyntaxError"
         THEN SetTop(e, [seen EXCEPT !.pc = "remove"]) /\ UNCHANGED <<epc, errors, lastCall>>
         ELSE IF Truthy(JSONparse(raw))
         THEN Finish(e, seen, "cached", JSONparse(raw))
         ELSE SetTop(e, [seen EXCEPT !.pc = "generate"]) /\ UNCHANGED <<epc, errors, lastCall>>
  /\ UNCHANGED <<engines, cacheMode, sds, files, cacheDir, tmpFiles, queue,
                 logged, gets, writers>>
  /\ UNCHANGED <<sfVars, diffVars, libVars>>

\* The corrupt file reported but left in place.
CacheRemoveSkipped(e) ==
  /\ At(e, "remove")
  /\ SetTop(e, [Top(e) EXCEPT !.pc = "generate"])
  /\ UNCHANGED <<engines, cacheMode, sds, files, cacheDir, tmpFiles, epc, queue,
                 errors, logged, gets, lastCall, writers>>
  /\ UNCHANGED <<sfVars, diffVars, libVars>>

\* getSnapshotFromCache, lines 216 and 225: await fs.remove(cacheFilePath).
CacheRemove(e) ==
  /\ At(e, "remove")
  /\ files' = [files EXCEPT ![Top(e).f] = Absent]
  /\ SetTop(e, [Top(e) EXCEPT !.pc = "generate"])
  /\ UNCHANGED <<engines, cacheMode, sds, cacheDir, tmpFiles, epc, queue, errors,
                 logged, gets, lastCall, writers>>
  /\ UNCHANGED <<sfVars, diffVars, libVars>>

\* generate(), lines 300-339: the StructureDefinition is loaded; without a
\* differential it throws; else the snapshot of the base is fetched, which
\* for a base that is a profile is a nested getSnapshotByMeta (line 322).
Generate(e) ==
  /\ At(e, "generate")
  /\ LET fr == [Top(e) EXCEPT !.ran = TRUE] IN
       IF ~sds[fr.f].differential
       THEN Finish(e, fr, "threw", "none")
       ELSE IF BaseOf(fr.f) = "base"
       THEN /\ SetTop(e, [fr EXCEPT !.pc = "applyDiffs", !.base = TRUE])
            /\ UNCHANGED <<epc, errors, lastCall>>
       ELSE /\ stack' = [stack EXCEPT ![e] =
                 Append(Append(Below(e), [fr EXCEPT !.pc = "awaitBase"]),
                        NewFrame(e, BaseOf(fr.f), "base"))]
            /\ UNCHANGED <<epc, errors, lastCall>>
  /\ UNCHANGED <<engines, cacheMode, sds, files, cacheDir, tmpFiles, queue,
                 logged, gets, writers>>
  /\ UNCHANGED <<sfVars, diffVars, libVars>>

\* generate() whose catch block rethrows.
generateNoFallback(f, base) ==
  IF base /\ sds[f].applies THEN "generated" ELSE "threw"

\* The snapshot generate() returns or the exception it throws (lines
\* 340-353): the differential applied to the base snapshot, or the snapshot
\* stored in the source package when that failed.
generate(f, base) ==
  IF base /\ sds[f].applies THEN "generated"
  ELSE IF sds[f].snapshot THEN "stored"
  ELSE "threw"

\* generate(), lines 340-353, and lines 377-381 / 394-397.
ApplyDiffs(e) ==
  /\ At(e, "applyDiffs")
  /\ LET fr == Top(e)
         generated == generate(fr.f, fr.base)
     IN  IF generated = "threw"
         THEN Finish(e, fr, "threw", "none")
         ELSE IF WritesCache(e)
         THEN /\ SetTop(e, [fr EXCEPT !.pc = "ensureDir", !.value = generated])
              /\ UNCHANGED <<epc, errors, lastCall>>
         ELSE Finish(e, fr, "generated", generated)
  /\ UNCHANGED <<engines, cacheMode, sds, files, cacheDir, tmpFiles, queue,
                 logged, gets, writers>>
  /\ UNCHANGED <<sfVars, diffVars, libVars>>

\* saveSnapshotToCache, line 237: await fs.ensureDir.
SaveEnsureDir(e) ==
  /\ At(e, "ensureDir")
  /\ cacheDir' = TRUE
  /\ SetTop(e, [Top(e) EXCEPT !.pc = "writeFile"])
  /\ UNCHANGED <<engines, cacheMode, sds, files, tmpFiles, epc, queue, errors,
                 logged, gets, lastCall, writers>>
  /\ UNCHANGED <<sfVars, diffVars, libVars>>

\* saveSnapshotToCache, line 243: await fs.writeFile(tmpPath, ...), which
\* throws when the directory is gone.
SaveWriteFile(e) ==
  /\ At(e, "writeFile")
  /\ IF cacheDir
     THEN /\ tmpFiles' = [tmpFiles EXCEPT ![e] = TRUE]
          /\ SetTop(e, [Top(e) EXCEPT !.pc = "move"])
     ELSE /\ SetTop(e, [Top(e) EXCEPT !.pc = "cleanup", !.failed = TRUE])
          /\ UNCHANGED tmpFiles
  /\ UNCHANGED <<engines, cacheMode, sds, files, cacheDir, epc, queue, errors,
                 logged, gets, lastCall, writers>>
  /\ UNCHANGED <<sfVars, diffVars, libVars>>

\* fs.move(tmpPath, cacheFilePath, {overwrite: false}) on an existing temp
\* file: TRUE when the file was moved, FALSE for EEXIST.
move(f) == files[f] = Absent

\* saveSnapshotToCache, lines 246-250.  Without the temp file the move
\* throws, which is a success only when the destination exists (line 249).
SaveMove(e) ==
  /\ At(e, "move")
  /\ LET fr == Top(e) IN
       IF ~tmpFiles[e]
       THEN /\ SetTop(e, [fr EXCEPT !.pc = "cleanup", !.failed = (files[fr.f] = Absent)])
            /\ UNCHANGED <<files, tmpFiles, cacheDir, writers>>
       ELSE IF move(fr.f)
       THEN /\ files' = [files EXCEPT ![fr.f] = fr.value]
            /\ tmpFiles' = [tmpFiles EXCEPT ![e] = FALSE]
            /\ cacheDir' = TRUE
            /\ writers' = [writers EXCEPT ![fr.f] = @ \cup {e}]
            /\ SetTop(e, [fr EXCEPT !.pc = "cleanup", !.wrote = TRUE])
       ELSE /\ SetTop(e, [fr EXCEPT !.pc = "cleanup"])
            /\ UNCHANGED <<files, tmpFiles, cacheDir, writers>>
  /\ UNCHANGED <<engines, cacheMode, sds, epc, queue, errors, logged, gets,
                 lastCall>>
  /\ UNCHANGED <<sfVars, diffVars, libVars>>

\* saveSnapshotToCache, lines 252-261 (the temp file left is removed), then
\* lines 381 / 397: the call returns what generate() returned, or the
\* exception of the failed write goes on.
SaveCleanup(e) ==
  /\ At(e, "cleanup")
  /\ tmpFiles' = [tmpFiles EXCEPT ![e] = FALSE]
  /\ LET fr == Top(e) IN
       IF fr.failed THEN Finish(e, fr, "threw", "none")
       ELSE Finish(e, fr, "generated", fr.value)
  /\ UNCHANGED <<engines, cacheMode, sds, files, cacheDir, queue, logged, gets,
                 writers>>
  /\ UNCHANGED <<sfVars, diffVars, libVars>>

CacheIdle ==
  /\ engines = {}
  /\ cacheMode = [e \in Engines |-> "none"]
  /\ sds = [f \in ProfileSet |-> [differential |-> TRUE, applies |-> TRUE, snapshot |-> FALSE]]
  /\ files = [f \in CachePaths |-> Absent]
  /\ cacheDir = FALSE
  /\ tmpFiles = [e \in Engines |-> FALSE]
  /\ epc = [e \in Engines |-> "new"]
  /\ stack = [e \in Engines |-> <<>>]
  /\ queue = [e \in Engines |-> <<>>]
  /\ errors = [e \in Engines |-> <<>>]
  /\ logged = [e \in Engines |-> 0]
  /\ gets = [e \in Engines |-> 0]
  /\ lastCall = [e \in Engines |-> NoCall]
  /\ writers = [f \in ProfileSet |-> {}]

SFIdle ==
  /\ inflightPromises = [p \in Procs |-> NoPromise]
  /\ lockFile = NoLock
  /\ cacheFile = NoFile
  /\ alive = [p \in Procs |-> p # "p0"]
  /\ active = {}
  /\ options = [disk |-> FALSE, getCached |-> FALSE]
  /\ pc = [c \in Callers |-> "idle"]
  /\ attempt = [c \in Callers |-> 1]
  /\ waited = [c \in Callers |-> 0]
  /\ awaiting = [c \in Callers |-> NoPromise]
  /\ outcome = [c \in Callers |-> "none"]
  /\ result = [c \in Callers |-> NoResult]
  /\ calls = [c \in Callers |-> 0]
  /\ overlapped = [c \in Callers |-> {}]
  /\ outlasted = FALSE

\* The cache before the engines start: what an earlier run, an interrupted
\* write or another program left at the two cache paths.
CacheInit ==
  /\ engines = {"e1"}
  /\ cacheMode \in {m \in [Engines -> Modes] : m["e2"] = "none"}
  /\ sds \in {k \in [ProfileSet -> SdKinds] : k["f1"].applies => ~k["f1"].snapshot}
  /\ files \in {c \in [CachePaths -> Contents \cup {Absent}] :
                  /\ c["f2"] \in {Absent, "generated", "dummy", "truncated"}
                  /\ c[StrayFile] \in {Absent, "dummy"}}
  /\ cacheDir = (\E f \in CachePaths : files[f] # Absent)
  /\ tmpFiles = [e \in Engines |-> FALSE]
  /\ epc = [e \in Engines |-> "new"]
  /\ stack = [e \in Engines |-> <<>>]
  /\ queue = [e \in Engines |-> <<>>]
  /\ errors = [e \in Engines |-> <<>>]
  /\ logged = [e \in Engines |-> 0]
  /\ gets = [e \in Engines |-> 0]
  /\ lastCall = [e \in Engines |-> NoCall]
  /\ writers = [f \in ProfileSet |-> {}]

\* Two engines, in 'lazy' or 'ensure' mode, start over a cache path that
\* holds no valid file.
RaceInit ==
  /\ engines = Engines
  /\ cacheMode \in [Engines -> {"lazy", "ensure"}]
  /\ sds = [f \in ProfileSet |-> [differential |-> TRUE, applies |-> TRUE, snapshot |-> FALSE]]
  /\ files \in {c \in [CachePaths -> {Absent, "empty", "blank", "truncated"}] :
                  c["f2"] = Absent /\ c[StrayFile] = Absent}
  /\ cacheDir = (\E f \in CachePaths : files[f] # Absent)
  /\ tmpFiles = [e \in Engines |-> FALSE]
  /\ epc = [e \in Engines |-> "new"]
  /\ stack = [e \in Engines |-> <<>>]
  /\ queue = [e \in Engines |-> <<>>]
  /\ errors = [e \in Engines |-> <<>>]
  /\ logged = [e \in Engines |-> 0]
  /\ gets = [e \in Engines |-> 0]
  /\ lastCall = [e \in Engines |-> NoCall]
  /\ writers = [f \in ProfileSet |-> {}]

CacheStep(e) ==
  \/ CacheExists(e) \/ CacheRead(e) \/ CacheRemove(e)
  \/ Generate(e) \/ ApplyDiffs(e)
  \/ SaveEnsureDir(e) \/ SaveWriteFile(e) \/ SaveMove(e) \/ SaveCleanup(e)

CacheNext ==
  \/ \E e \in Engines : Create(e)
  \/ \E e \in Engines : RebuildRemove(e)
  \/ \E e \in Engines : PrecacheNext(e)
  \/ \E e \in Engines, t \in ProfileSet \cup {"base"} : GetSnapshot(e, t)
  \/ \E e \in Engines : CacheStep(e)

RaceNext ==
  \/ \E e \in Engines : Create(e)
  \/ \E e \in Engines : PrecacheNext(e)
  \/ \E e \in Engines, t \in ProfileSet \cup {"base"} : GetSnapshot(e, t)
  \/ \E e \in Engines : CacheStep(e)

(***************************************************************************)
(* Part III : element sequences, trees and the diff applier                *)
(*                                                                         *)
(* An element id is the sequence of its dot-separated segments, a segment  *)
(* being a name and an optional slice name ("" when there is none); a path *)
(* is the sequence of names.  split('.'), split(':'), join, startsWith and *)
(* endsWith of the source are computed on these sequences.  A key that the *)
(* source may leave out of an object holds "" / <<>> / FALSE when absent.  *)
(* The definition fetcher serves a fixed small library of base types.      *)
(***************************************************************************)

MaxDiffs == 2          \* longest differential

Seg(n) == [n |-> n, s |-> ""]
SliceSeg(n, s) == [n |-> n, s |-> s]

\* id.split('.').map(segment => segment.split(':')[0])
removeSlices(id) == [i \in DOMAIN id |-> id[i].n]

\* A path read as an id: the same string has no slice names.
PathAsId(path) == [i \in DOMAIN path |-> Seg(path[i])]

\* str === prefix || str.startsWith(prefix + '.')
StartsWith(id, prefix) ==
  /\ Len(prefix) <= Len(id)
  /\ SubSeq(id, 1, Len(prefix)) = prefix

Rest(id, prefix) == SubSeq(id, Len(prefix) + 1, Len(id))

\* The names that end with '[x]' and what is left of them without it.
PolyNames == {"value[x]"}
EndsWithX(id) == id[Len(id)].s = "" /\ id[Len(id)].n \in PolyNames
PolyBase(name) == IF name = "value[x]" THEN "value" ELSE name

\* initCap: the first letter in upper case.
initCap(code) ==
  CASE code = "string" -> "String"
    [] code = "dateTime" -> "DateTime"
    [] OTHER -> code

\* id.endsWith(':' + sliceName)
EndsWithSlice(id, sliceName) == id[Len(id)].s = sliceName

\* The ElementDefinition an empty key set stands for, besides id and path.
NoKeys(id, path) ==
  [id |-> id, path |-> path, sliceName |-> "", slicing |-> FALSE, baseMax |-> "",
   type |-> <<>>, short |-> "", extension |-> FALSE,
   constraint |-> <<>>, condition |-> <<>>, mapping |-> <<>>]

\* An ElementDefinition of a snapshot.
Element(id, type, baseMax) ==
  [NoKeys(id, removeSlices(id)) EXCEPT !.sliceName = id[Len(id)].s,
                                       !.baseMax = baseMax,
                                       !.type = type]

NoDefinition == [id |-> <<>>]

\* The core library: the snapshot of a base type is its root and one child.
ChildOfType(code) ==
  CASE code = "Quantity" -> "unit"
    [] code = "Annotation" -> "text"
    [] OTHER -> "id"

getBaseType(code) ==
  << Element(<<Seg(code)>>, <<>>, "*"),
     Element(<<Seg(code), Seg(ChildOfType(code))>>, <<"string">>, "1") >>

--------------------------------------------------------------------------

toNodeType(element) ==
  IF EndsWithX(element.id) THEN "poly"
  ELSE IF element.sliceName # ""
       THEN IF element.slicing THEN "resliced" ELSE "slice"
       ELSE IF element.baseMax = "*" THEN "array" ELSE "element"

isNodeSliceable(node) == node.nodeType \in {"array", "poly", "resliced"}

\* createNode of toTree; k stands for the identity of the new object, k + 1
\* for that of its headslice.
createNode(element, forceNodeType, k) ==
  LET node == [key |-> k, id |-> element.id, path |-> element.path,
               nodeType |-> IF forceNodeType # "" THEN forceNodeType
                            ELSE toNodeType(element),
               definition |-> NoDefinition, sliceName |-> "", children |-> <<>>]
  IN  IF isNodeSliceable(node)
      THEN [node EXCEPT !.children =
              << [key |-> k + 1, id |-> element.id, path |-> element.path,
                  nodeType |-> "headslice", definition |-> element,
                  sliceName |-> "", children |-> <<>>] >>]
      ELSE [node EXCEPT !.definition = element, !.sliceName = element.sliceName]

\* node.children.push(new) on the node object k of the tree.
RECURSIVE Push(_, _, _)
Push(node, k, new) ==
  IF node.key = k
  THEN [node EXCEPT !.children = Append(node.children, new)]
  ELSE [node EXCEPT !.children =
          [i \in DOMAIN node.children |-> Push(node.children[i], k, new)]]

\* The loop of toTree, lines 88-119; idToNode maps an id to the node object
\* registered last under it.
RECURSIVE toTreeLoop(_, _, _, _)
toTreeLoop(elements, i, rootNode, idToNode) ==
  IF i > Len(elements) THEN [err |-> "", tree |-> rootNode]
  ELSE
    LET element == elements[i]
        idSegments == element.id
        lastSegment == idSegments[Len(idSegments)]
        isSlice == lastSegment.s # ""
        front == SubSeq(idSegments, 1, Len(idSegments) - 1)
        parentPath == IF isSlice THEN Append(front, Seg(lastSegment.n)) ELSE front
    IN  IF parentPath \notin DOMAIN idToNode
        THEN [err |-> "Parent node not found"]
        ELSE
          LET parentNode == idToNode[parentPath]
              newNode == createNode(element, "", 2 * i)
              target == IF isNodeSliceable(parentNode) /\ ~isSlice
                        THEN parentNode.key + 1    \* parentNode.children[0]
                        ELSE parentNode.key
          IN  toTreeLoop(elements, i + 1, Push(rootNode, target, newNode),
                         [x \in DOMAIN idToNode \cup {newNode.id} |->
                            IF x = newNode.id
                            THEN [key |-> newNode.key, nodeType |-> newNode.nodeType]
                            ELSE idToNode[x]])

toTree(elements) ==
  IF Len(elements) = 0 THEN [err |-> "Element array is empty"]
  ELSE LET rootNode == createNode(elements[1], "element", 2)
       IN  toTreeLoop(elements, 2, rootNode,
                      [x \in {rootNode.id} |->
                         [key |-> rootNode.key, nodeType |-> rootNode.nodeType]])

RECURSIVE ConcatAll(_)
ConcatAll(seqs) ==
  IF seqs = <<>> THEN <<>> ELSE Head(seqs) \o ConcatAll(Tail(seqs))

\* Variant of fromTree that emits a node after its children.
RECURSIVE fromTreePostOrder(_)
fromTreePostOrder(node) ==
  ConcatAll([i \in DOMAIN node.children |-> fromTreePostOrder(node.children[i])])
    \o (IF node.nodeType \in {"element", "slice", "headslice"}
        THEN <<node.definition>> ELSE <<>>)

\* fromTree: the definitions of the element, slice and headslice nodes in
\* pre-order.
RECURSIVE fromTree(_)
fromTree(node) ==
  (IF node.nodeType \in {"element", "slice", "headslice"}
   THEN <<node.definition>> ELSE <<>>)
    \o ConcatAll([i \in DOMAIN node.children |-> fromTree(node.children[i])])

\* fromTree throws: a node that must hold a definition has none.
RECURSIVE MissingDefinition(_)
MissingDefinition(node) ==
  \/ node.nodeType \in {"element", "slice", "headslice"} /\ node.definition = NoDefinition
  \/ \E i \in DOMAIN node.children : MissingDefinition(node.children[i])

\* Variant of rewriteElementPaths that cuts one segment more than the old
\* prefix off an id.
rewriteElementPathsCuttingSegment(elements, newPrefix, oldPrefix) ==
  LET newPathPrefix == removeSlices(newPrefix)
      oldPathPrefix == removeSlices(oldPrefix)
      replaceId(id) ==
        IF id = oldPrefix THEN newPrefix
        ELSE IF StartsWith(id, oldPrefix) THEN newPrefix \o Tail(Rest(id, oldPrefix))
        ELSE id
      replacePath(path) ==
        IF Len(path) > Len(oldPathPrefix)
           /\ SubSeq(path, 1, Len(oldPathPrefix)) = oldPathPrefix
        THEN newPathPrefix \o SubSeq(path, Len(oldPathPrefix) + 1, Len(path))
        ELSE path
  IN  [i \in DOMAIN elements |->
         [elements[i] EXCEPT !.id = replaceId(elements[i].id),
                             !.path = replacePath(elements[i].path)]]

\* rewriteElementPaths: the ids that are oldPrefix or start with it and a
\* dot get newPrefix in its place; so do the paths, without slice names.
rewriteElementPaths(elements, newPrefix, oldPrefix) ==
  LET newPathPrefix == removeSlices(newPrefix)
      oldPathPrefix == removeSlices(oldPrefix)
      replaceId(id) ==
        IF StartsWith(id, oldPrefix) THEN newPrefix \o Rest(id, oldPrefix) ELSE id
      \* the path prefixes end with '.', so the path of the root itself is kept
      replacePath(path) ==
        IF Len(path) > Len(oldPathPrefix)
           /\ SubSeq(path, 1, Len(oldPathPrefix)) = oldPathPrefix
        THEN newPathPrefix \o SubSeq(path, Len(oldPathPrefix) + 1, Len(path))
        ELSE path
  IN  [i \in DOMAIN elements |->
         [elements[i] EXCEPT !.id = replaceId(elements[i].id),
                             !.path = replacePath(elements[i].path)]]

\* rewriteNodePaths: the tree of the rewritten elements, or the error toTree
\* throws on them.
rewriteNodePaths(node, newPrefix, oldPrefix) ==
  toTree(rewriteElementPaths(fromTree(node), newPrefix, oldPrefix))

\* expandNode for a node without children: the children come from the
\* snapshot of its type, 'Element' when it has several types.
expandNode(node) ==
  IF isNodeSliceable(node) THEN [err |-> "Node is sliceable"]
  ELSE IF Len(node.children) > 0 THEN [err |-> "", node |-> node]
  ELSE IF node.definition = NoDefinition THEN [err |-> "Node has no ElementDefinition"]
  ELSE IF Len(node.definition.type) = 0 THEN [err |-> "Node has no type"]
  ELSE
    LET snapshotElements ==
          IF Len(node.definition.type) > 1 THEN getBaseType("Element")
          ELSE getBaseType(node.definition.type[1])
        rewrittenElements ==
          rewriteElementPaths(snapshotElements, node.id, snapshotElements[1].id)
        expandedSubtree == toTree(rewrittenElements).tree
    IN  [err |-> "", node |-> [node EXCEPT !.children = expandedSubtree.children]]

IndexOf(elements, id) ==
  IF \E i \in DOMAIN elements : elements[i].id = id
  THEN CHOOSE i \in DOMAIN elements :
         elements[i].id = id /\ \A j \in 1..(i - 1) : elements[j].id # id
  ELSE 0

elementExists(elements, targetElementId) ==
  \E i \in DOMAIN elements : elements[i].id = targetElementId

\* id.startsWith(injectionPoint + ':')
StartsWithColon(id, point) ==
  /\ Len(id) >= Len(point)
  /\ point[Len(point)].s = ""
  /\ SubSeq(id, 1, Len(point) - 1) = SubSeq(point, 1, Len(point) - 1)
  /\ id[Len(point)].n = point[Len(point)].n
  /\ id[Len(point)].s # ""

\* Variant of injectElementBlock that puts the block after the last element.
injectElementBlockAtEnd(elements, injectionPoint, elementBlock) ==
  LET index == IndexOf(elements, injectionPoint)
      before == SubSeq(elements, 1, index - 1)
      after == SelectSeq(SubSeq(elements, index + 1, Len(elements)),
                 LAMBDA el :
                   /\ ~(Len(el.id) > Len(injectionPoint) /\ StartsWith(el.id, injectionPoint))
                   /\ ~StartsWithColon(el.id, injectionPoint))
  IN  IF index = 0 THEN [err |-> "Element not found"]
      ELSE [err |-> "", elements |-> before \o after \o elementBlock]

injectElementBlock(elements, injectionPoint, elementBlock) ==
  LET index == IndexOf(elements, injectionPoint)
      before == SubSeq(elements, 1, index - 1)
      after == SelectSeq(SubSeq(elements, index + 1, Len(elements)),
                 LAMBDA el :
                   /\ ~(Len(el.id) > Len(injectionPoint) /\ StartsWith(el.id, injectionPoint))
                   /\ ~StartsWithColon(el.id, injectionPoint))
  IN  IF index = 0 THEN [err |-> "Element not found"]
      ELSE [err |-> "", elements |-> before \o elementBlock \o after]

\* Array.from(new Set(arr)), and the filter of lines 40-43: the first
\* occurrence of every member, in order.
Dedup(arr) ==
  SelectSeq([i \in DOMAIN arr |-> [x |-> arr[i], first |-> \A j \in 1..(i - 1) : arr[j] # arr[i]]],
            LAMBDA e : e.first)

Members(arr) == [i \in DOMAIN arr |-> arr[i].x]

\* Variant of mergeElement that adds only the constraints the base lacks.
mergeElementNewConstraints(base, diff) ==
  [base EXCEPT !.sliceName = IF diff.sliceName # "" THEN diff.sliceName ELSE @,
               !.slicing = IF diff.slicing THEN TRUE ELSE @,
               !.baseMax = IF diff.baseMax # "" THEN diff.baseMax ELSE @,
               !.type = IF diff.type # <<>> THEN diff.type ELSE @,
               !.short = IF diff.short # "" THEN diff.short ELSE @,
               !.extension = IF diff.extension THEN TRUE ELSE @,
               !.constraint = Members(Dedup(@ \o diff.constraint)),
               !.condition = IF diff.condition # <<>>
                             THEN Members(Dedup(@ \o diff.condition)) ELSE @,
               !.mapping = IF diff.mapping # <<>>
                           THEN Members(Dedup(@ \o diff.mapping)) ELSE @]

\* mergeElement: id and path stay; constraint is the base's followed by the
\* diff's, condition and mapping are the two without repetitions, every
\* other key of the diff overrides.  The ids of base and diff are equal
\* wherever it is applied (the throw of line 20 is not reached).
mergeElement(base, diff) ==
  [base EXCEPT !.sliceName = IF diff.sliceName # "" THEN diff.sliceName ELSE @,
               !.slicing = IF diff.slicing THEN TRUE ELSE @,
               !.baseMax = IF diff.baseMax # "" THEN diff.baseMax ELSE @,
               !.type = IF diff.type # <<>> THEN diff.type ELSE @,
               !.short = IF diff.short # "" THEN diff.short ELSE @,
               !.extension = IF diff.extension THEN TRUE ELSE @,
               !.constraint = @ \o diff.constraint,
               !.condition = IF diff.condition # <<>>
                             THEN Members(Dedup(@ \o diff.condition)) ELSE @,
               !.mapping = IF diff.mapping # <<>>
                           THEN Members(Dedup(@ \o diff.mapping)) ELSE @]

\* Variant of applySingleDiff without the sliceName clean-up of lines 29-31.
applySingleDiffKeepsSliceName(elements, diffElement) ==
  LET index == IndexOf(elements, diffElement.id)
  IN  IF index = 0 THEN [err |-> "Element not found"]
      ELSE [err |-> "",
            elements |-> [elements EXCEPT ![index] = mergeElement(elements[index], diffElement)]]

applySingleDiff(elements, diffElement) ==
  LET index == IndexOf(elements, diffElement.id)
      mergedElement == mergeElement(elements[index], diffElement)
      fixed == IF mergedElement.sliceName # ""
                  /\ ~EndsWithSlice(mergedElement.id, mergedElement.sliceName)
               THEN [mergedElement EXCEPT !.sliceName = ""]
               ELSE mergedElement
  IN  IF index = 0 THEN [err |-> "Element not found"]
      ELSE [err |-> "", elements |-> [elements EXCEPT ![index] = fixed]]

\* The children of the parent that are polymorphic, in order, and the first
\* declared type whose shortcut is the missing segment.
findMonopolyShortcutTarget(parentId, missingSegment, children) ==
  LET childElements ==
        SelectSeq(children, LAMBDA el :
          Len(el.id) > Len(parentId) /\ StartsWith(el.id, parentId) /\ EndsWithX(el.id))
      base(el) == PolyBase(el.id[Len(el.id)].n)
      types(el) == IF Len(el.children) > 0 /\ el.children[1].definition # NoDefinition
                   THEN el.children[1].definition.type ELSE <<>>
      hits == {<<i, j>> \in (DOMAIN childElements) \X (1..3) :
                 /\ j \in DOMAIN types(childElements[i])
                 /\ base(childElements[i]) \o initCap(types(childElements[i])[j])
                      = missingSegment}
      first == CHOOSE h \in hits :
                 \A g \in hits : h[1] < g[1] \/ (h[1] = g[1] /\ h[2] <= g[2])
  IN  IF hits = {} THEN [found |-> FALSE]
      ELSE [found |-> TRUE,
            rewrittenSegment |-> base(childElements[first[1]]) \o "[x]",
            type |-> types(childElements[first[1]])[first[2]]]

\* Variant of MapSet that puts a new key first.
MapSetFirst(map, k, v) ==
  <<[k |-> k, v |-> v]>> \o SelectSeq(map, LAMBDA e : e.k # k)

\* pathRewriteMap.set: a new key goes last, a known key keeps its place.
MapSet(map, k, v) ==
  IF \E i \in DOMAIN map : map[i].k = k
  THEN [i \in DOMAIN map |-> IF map[i].k = k THEN [k |-> k, v |-> v] ELSE map[i]]
  ELSE Append(map, [k |-> k, v |-> v])

MapHas(map, k) == \E i \in DOMAIN map : map[i].k = k
MapGet(map, k) == map[CHOOSE i \in DOMAIN map : map[i].k = k].v

\* Variant of the virtual diff that carries no type.
virtualDiffWithoutType(canonicalId, canonicalPath, type) ==
  NoKeys(canonicalId, canonicalPath)

\* The virtual diff of ensureChild, lines 73-77.
virtualDiff(canonicalId, canonicalPath, type) ==
  [NoKeys(canonicalId, canonicalPath) EXCEPT !.type = <<type>>]

\* The elements of a result together with the path rewrite map.
WithMap(r, map) ==
  IF r.err # "" THEN [err |-> r.err]
  ELSE [err |-> "", elements |-> r.elements, map |-> map]

\* ensureChild, lines 129-143: a new slice is made from the head slice and
\* the block of the child is injected again.
createSlice(elements, childElement, sliceName, newSlice, map) ==
  WithMap(injectElementBlock(elements, childElement.id,
            fromTree([childElement EXCEPT !.children = Append(@,
               [newSlice EXCEPT !.nodeType = "slice",
                                !.sliceName = sliceName,
                                !.definition = [@ EXCEPT !.slicing = FALSE,
                                                         !.sliceName = sliceName]])])),
          map)

\* ensureChild, lines 87-128: the child exists, the segment names a slice.
ensureSlice(elements, parentId, childId, childElement, headSlice, map) ==
  IF childId.s = ""
  THEN [err |-> "", elements |-> elements, map |-> map]
  ELSE IF ~isNodeSliceable(childElement)
  THEN [err |-> "", elements |-> elements,
        map |-> MapSet(map, Append(parentId, childId),
                       [id |-> childElement.id, path |-> childElement.path])]
  ELSE IF \E i \in DOMAIN childElement.children :
            childElement.children[i].sliceName = childId.s
  THEN [err |-> "", elements |-> elements, map |-> map]
  ELSE IF /\ childId.n \in PolyNames
          /\ Len(headSlice.definition.type) = 1
          /\ childId.s = PolyBase(childId.n) \o initCap(headSlice.definition.type[1])
  THEN [err |-> "", elements |-> elements,
        map |-> MapSet(map, Append(parentId, childId),
                       [id |-> childElement.id, path |-> childElement.path])]
  ELSE createSlice(elements, childElement, childId.s,
         rewriteNodePaths(headSlice,
                          [headSlice.id EXCEPT ![Len(headSlice.id)].s = childId.s],
                          headSlice.id).tree,
         map)

\* ensureChild, lines 61-84: the segment is the shortcut of a polymorphic
\* child, or it is illegal.
applyShortcut(elements, parentId, elementName, match, canonicalId, canonicalPath, map) ==
  WithMap(applySingleDiff(elements, virtualDiff(canonicalId, canonicalPath, match.type)),
          MapSet(map, Append(parentId, Seg(elementName)),
                 [id |-> canonicalId, path |-> canonicalPath]))

\* elementDefinition?.path ?? canonicalId
PathOf(elements, canonicalId) ==
  IF IndexOf(elements, canonicalId) # 0
  THEN elements[IndexOf(elements, canonicalId)].path
  ELSE removeSlices(canonicalId)

resolveShortcut(elements, parentId, elementName, match, map) ==
  IF ~match.found THEN [err |-> "Element is illegal under parent"]
  ELSE applyShortcut(elements, parentId, elementName, match,
                     Append(parentId, Seg(match.rewrittenSegment)),
                     PathOf(elements, Append(parentId, Seg(match.rewrittenSegment))),
                     map)

\* ensureChild, lines 53-60: the direct child whose id ends with the name.
ChildrenNamed(parentNode, elementName) ==
  {i \in DOMAIN parentNode.children :
     parentNode.children[i].id[Len(parentNode.children[i].id)] = Seg(elementName)}

FirstOf(indices) == CHOOSE i \in indices : \A j \in indices : i <= j

findChild(elements, parentId, childId, parentNode, found, map) ==
  IF found = {}
  THEN resolveShortcut(elements, parentId, childId.n,
         findMonopolyShortcutTarget(parentId, childId.n, parentNode.children), map)
  ELSE ensureSlice(elements, parentId, childId,
                   parentNode.children[FirstOf(found)],
                   IF Len(parentNode.children[FirstOf(found)].children) > 0
                   THEN parentNode.children[FirstOf(found)].children[1]
                   ELSE NoDefinition,
                   map)

\* ensureChild, lines 49-52: a parent without children is expanded and its
\* block injected.
ensureInjected(injected, parentId, childId, parentNode, map) ==
  IF injected.err # "" THEN [err |-> injected.err]
  ELSE findChild(injected.elements, parentId, childId, parentNode,
                 ChildrenNamed(parentNode, childId.n), map)

ensureExpanded(elements, parentId, childId, expanded, map) ==
  IF expanded.err # "" THEN [err |-> expanded.err]
  ELSE ensureInjected(injectElementBlock(elements, parentId, fromTree(expanded.node)),
                      parentId, childId, expanded.node, map)

ensureChildOfNode(elements, parentId, childId, parentNode, map) ==
  IF Len(parentNode.children) > 0
  THEN findChild(elements, parentId, childId, parentNode,
                 ChildrenNamed(parentNode, childId.n), map)
  ELSE ensureExpanded(elements, parentId, childId, expandNode(parentNode), map)

ensureChildInTree(elements, parentId, childId, built, map) ==
  IF built.err # "" THEN [err |-> built.err]
  ELSE ensureChildOfNode(elements, parentId, childId,
         IF isNodeSliceable(built.tree) THEN built.tree.children[1] ELSE built.tree,
         map)

\* ensureChild, lines 40-47: the block of the parent as a tree.
ParentElementBlock(elements, parentId) ==
  SelectSeq(elements, LAMBDA el : StartsWith(el.id, parentId))

ensureChild(elements, parentId, childId, map) ==
  IF Len(ParentElementBlock(elements, parentId)) = 0
  THEN [err |-> "Parent element not found"]
  ELSE ensureChildInTree(elements, parentId, childId,
                         toTree(ParentElementBlock(elements, parentId)), map)

\* rewrite of applyDiffs: the first entry of the map that is the original or
\* a prefix of it replaces that prefix.
MapHits(str, map) == {i \in DOMAIN map : StartsWith(str, map[i].k)}

rewrite(original, kind, map) ==
  IF kind = "id"
  THEN IF MapHits(original, map) = {} THEN original
       ELSE map[FirstOf(MapHits(original, map))].v.id
              \o Rest(original, map[FirstOf(MapHits(original, map))].k)
  ELSE IF MapHits(PathAsId(original), map) = {} THEN original
       ELSE map[FirstOf(MapHits(PathAsId(original), map))].v.path
              \o Rest(original, map[FirstOf(MapHits(PathAsId(original), map))].k)

--------------------------------------------------------------------------

\* The stored snapshots a derivation starts from.
ObsId(names) == <<Seg("Obs")>> \o [i \in DOMAIN names |-> Seg(names[i])]

SnapshotLiberal ==
  << [Element(ObsId(<<>>), <<>>, "*") EXCEPT !.extension = TRUE],
     Element(ObsId(<<"value[x]">>), <<"Quantity", "string">>, "1"),
     Element(ObsId(<<"date">>), <<"dateTime">>, "1"),
     Element(ObsId(<<"note">>), <<"Annotation">>, "*") >>

SnapshotMonopoly ==
  << Element(ObsId(<<>>), <<>>, "*"),
     Element(ObsId(<<"value[x]">>), <<"Quantity">>, "1"),
     Element(ObsId(<<"date">>), <<"dateTime">>, "1"),
     Element(ObsId(<<"note">>), <<"Annotation">>, "*"),
     Element(<<Seg("Obs"), SliceSeg("note", "old")>>, <<"Annotation">>, "*") >>

\* As SnapshotMonopoly, the slice being sliced again.
SnapshotResliced ==
  << Element(ObsId(<<>>), <<>>, "*"),
     Element(ObsId(<<"value[x]">>), <<"Quantity">>, "1"),
     Element(ObsId(<<"date">>), <<"dateTime">>, "1"),
     Element(ObsId(<<"note">>), <<"Annotation">>, "*"),
     [Element(<<Seg("Obs"), SliceSeg("note", "old")>>, <<"Annotation">>, "*")
        EXCEPT !.slicing = TRUE],
     Element(<<Seg("Obs"), SliceSeg("note", "old/sub")>>, <<"Annotation">>, "*") >>

Snapshots == {SnapshotLiberal, SnapshotMonopoly, SnapshotResliced}

\* The entries a differential is made of.
Diff(id, path, sliceName, type, short) ==
  [NoKeys(id, path) EXCEPT !.sliceName = sliceName, !.type = type, !.short = short]

DiffPool ==
  { Diff(ObsId(<<"valueQuantity">>), <<"Obs", "valueQuantity">>, "", <<>>, "q"),
    Diff(ObsId(<<"valueQuantity">>), <<"Obs", "valueQuantity">>, "valueQuantity",
         <<"Quantity">>, ""),
    Diff(ObsId(<<"valueString">>), <<"Obs", "valueString">>, "", <<>>, "s"),
    Diff(ObsId(<<"valueQuantity", "unit">>), <<"Obs", "valueQuantity", "unit">>,
         "", <<>>, "u"),
    Diff(<<Seg("Obs"), SliceSeg("value[x]", "valueQuantity")>>, <<"Obs", "value[x]">>,
         "valueQuantity", <<"Quantity">>, ""),
    Diff(ObsId(<<"value[x]">>), <<"Obs", "value[x]">>, "", <<>>, "v"),
    Diff(<<Seg("Obs"), SliceSeg("date", "issued")>>, <<"Obs", "date">>, "issued", <<>>, "d"),
    Diff(<<Seg("Obs"), SliceSeg("note", "s")>>, <<"Obs", "note">>, "s", <<>>, "n"),
    Diff(ObsId(<<"note", "text">>), <<"Obs", "note", "text">>, "", <<>>, "t"),
    Diff(<<Seg("Obs"), SliceSeg("note", "old"), Seg("text")>>, <<"Obs", "note", "text">>,
         "", <<>>, "o"),
    Diff(<<Seg("Obs"), SliceSeg("date", "issued"), SliceSeg("id", "x")>>,
         <<"Obs", "date", "id">>, "", <<>>, "i"),
    Diff(<<Seg("Obs"), Seg("valueQuantity"), SliceSeg("unit", "u")>>,
         <<"Obs", "valueQuantity", "unit">>, "", <<>>, "w"),
    Diff(<<Seg("Obs"), SliceSeg("note", "s"), Seg("text")>>, <<"Obs", "note", "text">>,
         "", <<>>, "x"),
    Diff(ObsId(<<"bogus">>), <<"Obs", "bogus">>, "", <<>>, "b") }

Differentials == UNION {[1..n -> DiffPool] : n \in 0..MaxDiffs}

DiffInit ==
  /\ snapshotIn \in Snapshots
  /\ differential \in Differentials
  /\ workingSnapshot = <<>>
  /\ diffIndex = 0
  /\ rewriteMap = <<>>
  /\ dpc = "new"
  /\ segIndex = 0
  /\ canonicalParentId = <<>>
  /\ calledParent = <<>>
  /\ lastStep = "none"
  /\ branched = FALSE
  /\ rpc = "none"
  /\ compare = <<>>
  /\ treeOut = NoDefinition
  /\ roundtrip = <<>>

DiffIdle ==
  /\ snapshotIn = <<>>
  /\ differential = <<>>
  /\ workingSnapshot = <<>>
  /\ diffIndex = 0
  /\ rewriteMap = <<>>
  /\ dpc = "idle"
  /\ segIndex = 0
  /\ canonicalParentId = <<>>
  /\ calledParent = <<>>
  /\ lastStep = "none"
  /\ branched = FALSE
  /\ rpc = "idle"
  /\ compare = <<>>
  /\ treeOut = NoDefinition
  /\ roundtrip = <<>>

\* applyDiffs, lines 66-76: the working copy, without the extensions of the
\* root element.
ApplyDiffsStart ==
  /\ UNCHANGED <<sfVars, cacheVars, libVars>>
  /\ dpc = "new"
  /\ workingSnapshot' = [snapshotIn EXCEPT ![1].extension = FALSE]
  /\ diffIndex' = 1
  /\ dpc' = IF Len(differential) = 0 THEN "done" ELSE "loop"
  /\ UNCHANGED <<snapshotIn, differential, rewriteMap, segIndex, canonicalParentId,
                 calledParent, lastStep, branched, rpc, compare, treeOut, roundtrip>>

\* applyDiffs, lines 77-82, and ensureBranch, lines 23-36: the next entry is
\* taken; when no element has its id, ensureBranch starts on its segments.
ApplyDiffsNext ==
  /\ UNCHANGED <<sfVars, cacheVars, libVars>>
  /\ dpc = "loop"
  /\ LET targetElementId == differential[diffIndex].id
         rootId == <<targetElementId[1]>>
     IN  IF elementExists(workingSnapshot, targetElementId)
         THEN /\ dpc' = "merge"
              /\ branched' = FALSE
              /\ UNCHANGED <<segIndex, canonicalParentId>>
         ELSE /\ branched' = TRUE
              /\ IF workingSnapshot[1].id # rootId
                 THEN dpc' = "threw" /\ UNCHANGED <<segIndex, canonicalParentId>>
                 ELSE IF rootId = targetElementId
                 THEN dpc' = "merge" /\ UNCHANGED <<segIndex, canonicalParentId>>
                 ELSE /\ dpc' = "branch"
                      /\ segIndex' = 2
                      /\ canonicalParentId' = rootId
  /\ UNCHANGED <<snapshotIn, differential, workingSnapshot, diffIndex, rewriteMap,
                 calledParent, lastStep, rpc, compare, treeOut, roundtrip>>

\* Variant of rewrittenParent that does not consult the map.
rewrittenParentIgnoringMap(parentId, map) == parentId

\* ensureBranch, lines 43-46: the parent as the map rewrites it.
rewrittenParent(parentId, map) ==
  IF MapHas(map, parentId) THEN MapGet(map, parentId).id ELSE parentId

\* ensureBranch, lines 39-60: one pass of the loop, ensureChild included.
EnsureBranchStep ==
  /\ UNCHANGED <<sfVars, cacheVars, libVars>>
  /\ dpc = "branch"
  /\ LET rawChildSegment == differential[diffIndex].id[segIndex]
         parentId == rewrittenParent(canonicalParentId, rewriteMap)
         r == ensureChild(workingSnapshot, parentId, rawChildSegment, rewriteMap)
     IN  /\ calledParent' = parentId
         /\ IF r.err # ""
            THEN /\ dpc' = "threw"
                 /\ UNCHANGED <<workingSnapshot, rewriteMap, segIndex,
                                canonicalParentId, lastStep>>
            ELSE /\ workingSnapshot' = r.elements
                 /\ rewriteMap' = r.map
                 /\ canonicalParentId' = Append(parentId, rawChildSegment)
                 /\ segIndex' = segIndex + 1
                 /\ lastStep' = "ensureChild"
                 /\ dpc' = IF segIndex = Len(differential[diffIndex].id)
                           THEN "merge" ELSE "branch"
  /\ UNCHANGED <<snapshotIn, differential, diffIndex, branched, rpc, compare,
                 treeOut, roundtrip>>

\* applyDiffs, lines 85-89: the entry with its id and path rewritten.
rewrittenDiff(diff, map) ==
  [diff EXCEPT !.id = rewrite(diff.id, "id", map),
               !.path = rewrite(diff.path, "path", map)]

\* applyDiffs, lines 85-94: the rewritten entry is merged into the element
\* of its id; after the last entry the working array is returned.
ApplyRewrittenDiff ==
  /\ UNCHANGED <<sfVars, cacheVars, libVars>>
  /\ dpc = "merge"
  /\ LET r == applySingleDiff(workingSnapshot,
                              rewrittenDiff(differential[diffIndex], rewriteMap))
     IN  IF r.err # ""
         THEN /\ dpc' = "threw"
              /\ UNCHANGED <<workingSnapshot, diffIndex, lastStep>>
         ELSE /\ workingSnapshot' = r.elements
              /\ diffIndex' = diffIndex + 1
              /\ lastStep' = "merge"
              /\ dpc' = IF diffIndex = Len(differential) THEN "done" ELSE "loop"
  /\ UNCHANGED <<snapshotIn, differential, rewriteMap, segIndex, canonicalParentId,
                 calledParent, branched, rpc, compare, treeOut, roundtrip>>

\* roundTripTest, line 101: the tree of a stored snapshot, or of the
\* sequence applyDiffs returned.
RoundTripToTree ==
  /\ UNCHANGED <<sfVars, cacheVars, libVars>>
  /\ rpc = "none"
  /\ dpc \in {"new", "done"}
  /\ compare' = IF dpc = "new" THEN snapshotIn ELSE workingSnapshot
  /\ LET built == toTree(compare')
     IN  IF built.err # "" \/ MissingDefinition(built.tree)
         THEN rpc' = "threw" /\ UNCHANGED treeOut
         ELSE rpc' = "tree" /\ treeOut' = built.tree
  /\ UNCHANGED <<snapshotIn, differential, workingSnapshot, diffIndex, rewriteMap,
                 dpc, segIndex, canonicalParentId, calledParent, lastStep, branched,
                 roundtrip>>

\* roundTripTest, line 103.
RoundTripFromTree ==
  /\ UNCHANGED <<sfVars, cacheVars, libVars>>
  /\ rpc = "tree"
  /\ roundtrip' = fromTree(treeOut)
  /\ rpc' = "flat"
  /\ UNCHANGED <<snapshotIn, differential, workingSnapshot, diffIndex, rewriteMap,
                 dpc, segIndex, canonicalParentId, calledParent, lastStep, branched,
                 compare, treeOut>>

DiffNext ==
  \/ ApplyDiffsStart
  \/ ApplyDiffsNext
  \/ EnsureBranchStep
  \/ ApplyRewrittenDiff
  \/ RoundTripToTree
  \/ RoundTripFromTree

(***************************************************************************)
(* Part IV : the base package of a package                                 *)
(*                                                                         *)
(* A package identifier is the record of its id and version; the string    *)
(* `${id}@${version}` of the source is equal for two identifiers exactly   *)
(* when the records are (no id or version holds an '@').                   *)
(***************************************************************************)

Pkg(id, version) == [id |-> id, version |-> version]

\* resolveFhirVersion.ts, lines 9-19.
fhirVersionMap ==
  [v \in {"3.0.2", "3.0", "R3", "4.0.1", "4.0", "4.3.0", "4.3", "5.0.0", "5.0"} |->
     CASE v \in {"3.0.2", "3.0", "R3"} -> "STU3"
       [] v \in {"4.0.1", "4.0"} -> "R4"
       [] v \in {"4.3.0", "4.3"} -> "R4B"
       [] OTHER -> "R5"]

\* resolveFhirVersion.ts, lines 21-26.
fhirCorePackages ==
  [v \in {"STU3", "R4", "R4B", "R5"} |->
     CASE v = "STU3" -> Pkg("hl7.fhir.r3.core", "3.0.2")
       [] v = "R4" -> Pkg("hl7.fhir.r4.core", "4.0.1")
       [] v = "R4B" -> Pkg("hl7.fhir.r4b.core", "4.3.0")
       [] OTHER -> Pkg("hl7.fhir.r5.core", "5.0.0")]

\* Object.values(fhirCorePackages).includes(`${pkg.id}@${pkg.version}`)
isCorePackage(pkg) == \E v \in DOMAIN fhirCorePackages : fhirCorePackages[v] = pkg

\* resolveFhirVersion(version, true): the core package of a version
\* identifier, or the Error of line 40.
resolveFhirVersion(version) ==
  LET canonicalVersion == IF version \in DOMAIN fhirVersionMap
                          THEN fhirVersionMap[version] ELSE version
  IN IF canonicalVersion \in DOMAIN fhirCorePackages
     THEN [err |-> FALSE, pkg |-> fhirCorePackages[canonicalVersion]]
     ELSE [err |-> TRUE, pkg |-> Pkg("", "")]

\* findCorePackage: the package itself when it is a base package, else its
\* direct dependencies that are.
findCorePackage(pkg, deps) ==
  IF isCorePackage(pkg) THEN <<pkg>> ELSE SelectSeq(deps, isCorePackage)

NotResolved == [how |-> "none", value |-> Pkg("", ""), error |-> ""]
ReturnedPkg(pkg) == [how |-> "returned", value |-> pkg, error |-> ""]
Undefined == [how |-> "undefined", value |-> Pkg("", ""), error |-> ""]
Threw(error) == [how |-> "threw", value |-> Pkg("", ""), error |-> error]

\* Lines 37-51: the core packages of the manifest's fhirVersions.
coreOfVersions(versions) == [i \in DOMAIN versions |-> resolveFhirVersion(versions[i])]

\* Lines 56-62, on the core packages found.
resolveFound(corePackages) ==
  IF Len(corePackages) > 1 THEN Undefined
  ELSE IF Len(corePackages) = 0 THEN Threw("TypeError")   \* corePackages[0].id
  ELSE ReturnedPkg(Pkg(corePackages[1].id,
                       IF corePackages[1].id = "hl7.fhir.r4.core" /\ corePackages[1].version = "4.0.0"
                       THEN "4.0.1" ELSE corePackages[1].version))

\* resolveBasePackage(packageId, packageVersion, fpe, logger); deps and
\* manifestVersions are what fpe answers for the package.
resolveBasePackage(pkg, deps, manifestVersions) ==
  LET corePackages == findCorePackage(pkg, deps)
      resolved == coreOfVersions(manifestVersions)
  IN IF Len(corePackages) = 0 /\ Len(manifestVersions) > 0
     THEN IF \E i \in DOMAIN resolved : resolved[i].err
          THEN Threw("Unsupported FHIR version")
          ELSE resolveFound([i \in DOMAIN resolved |-> resolved[i].pkg])
     ELSE resolveFound(corePackages)

\* Packages a context may hold, and version identifiers a manifest may list.
PackagePool ==
  { Pkg("hl7.fhir.r4.core", "4.0.0"), Pkg("hl7.fhir.r4.core", "4.0.1"),
    Pkg("hl7.fhir.r5.core", "5.0.0"), Pkg("hl7.fhir.uv.extensions", "1.0.0"),
    Pkg("my.guide", "1.0.0") }
VersionPool == {"4.0.0", "4.0.1", "4.0", "R4", "5.0.0", "6.0"}

\* Direct dependencies a manifest may list, and fhirVersions it may list.
MaxDeps == 2
MaxFhirVersions == 1

\* A manifest names a package id once.
DependencyLists ==
  {d \in UNION {[1..n -> PackagePool] : n \in 0..MaxDeps} :
     \A i, j \in DOMAIN d : i # j => d[i].id # d[j].id}

PkgInit ==
  /\ sourcePackage \in PackagePool
  /\ dependencies \in {d \in DependencyLists : \A i \in DOMAIN d : d[i].id # sourcePackage.id}
  /\ fhirVersions \in UNION {[1..n -> VersionPool] : n \in 0..MaxFhirVersions}
  /\ baseFhirPackage = NotResolved

PkgIdle ==
  /\ sourcePackage = Pkg("", "")
  /\ dependencies = <<>>
  /\ fhirVersions = <<>>
  /\ baseFhirPackage = NotResolved


\* index.ts, line 288.
ResolveBasePackage ==
  /\ UNCHANGED <<sfVars, cacheVars, diffVars, mergeVars, rewriteVars, fetchVars>>
  /\ baseFhirPackage = NotResolved
  /\ sourcePackage # Pkg("", "")
  /\ baseFhirPackage' = resolveBasePackage(sourcePackage, dependencies, fhirVersions)
  /\ UNCHANGED <<sourcePackage, dependencies, fhirVersions>>

PkgNext == ResolveBasePackage

(***************************************************************************)
(* Part IV : mergeElement on its own                                       *)
(***************************************************************************)

\* Members an accumulated array may hold in base or diff.
MaxArray == 2

ArraysOf(pool) == UNION {[1..n -> pool] : n \in 0..MaxArray}

ConstraintPool == {"ele-1", "obs-7"}
ConditionPool == {"ele-1", "obs-7"}
MappingPool == {[identity |-> "v2", map |-> "OBX"], [identity |-> "rim", map |-> "Act"]}

\* Elements with id Obs.note that differ in the keys they hold.
MergePool ==
  { [Element(ObsId(<<"note">>), <<"Annotation">>, "*")
       EXCEPT !.short = sh, !.slicing = sl,
              !.constraint = cs, !.condition = cd, !.mapping = mp] :
      sh \in {"", "n"}, sl \in BOOLEAN,
      cs \in ArraysOf(ConstraintPool), cd \in ArraysOf(ConditionPool),
      mp \in ArraysOf(MappingPool) }

\* Diff entries that are no copy of the base element.
MergeDiffPool ==
  { Diff(ObsId(<<"note">>), <<"Obs", "note">>, "", <<>>, "d"),
    [NoKeys(ObsId(<<"note">>), <<"Obs", "note">>) EXCEPT !.constraint = <<"obs-7">>],
    [NoKeys(ObsId(<<"note">>), <<"Obs", "note">>)
       EXCEPT !.condition = <<"obs-7", "ele-1">>,
              !.mapping = <<[identity |-> "rim", map |-> "Act"]>>],
    Diff(ObsId(<<"date">>), <<"Obs", "date">>, "", <<>>, "d") }

MergeInit ==
  /\ mergeBase \in MergePool
  /\ mergeDiff \in {mergeBase} \cup MergeDiffPool
  /\ mergeResult = NoKeys(<<>>, <<>>)
  /\ mpc = "new"

MergeIdle ==
  /\ mergeBase = NoKeys(<<>>, <<>>)
  /\ mergeDiff = NoKeys(<<>>, <<>>)
  /\ mergeResult = NoKeys(<<>>, <<>>)
  /\ mpc = "idle"

\* mergeElement(base, diff), with the test of lines 19-21.
MergeElement ==
  /\ UNCHANGED <<sfVars, cacheVars, diffVars, pkgVars, rewriteVars, fetchVars>>
  /\ mpc = "new"
  /\ IF mergeDiff.id # mergeBase.id
     THEN mpc' = "threw" /\ UNCHANGED mergeResult
     ELSE mpc' = "merged" /\ mergeResult' = mergeElement(mergeBase, mergeDiff)
  /\ UNCHANGED <<mergeBase, mergeDiff>>

MergeNext == MergeElement

(***************************************************************************)
(* Part IV : rewriting the prefix of a branch                              *)
(***************************************************************************)

BranchNote ==
  << Element(ObsId(<<"note">>), <<"Annotation">>, "*"),
     Element(ObsId(<<"note", "text">>), <<"string">>, "1"),
     Element(ObsId(<<"note", "text", "id">>), <<"string">>, "1"),
     Element(ObsId(<<"note", "time">>), <<"dateTime">>, "1") >>

BranchSlice ==
  << Element(<<Seg("Obs"), SliceSeg("note", "old")>>, <<"Annotation">>, "*"),
     Element(<<Seg("Obs"), SliceSeg("note", "old"), Seg("text")>>, <<"string">>, "1") >>

\* The sequences a branch is built from: stored snapshots, and the blocks
\* of an element and of a slice.
Branches == Snapshots \cup {BranchNote, BranchSlice}

\* Prefixes a branch may be rewritten to.
Prefixes ==
  { ObsId(<<>>), ObsId(<<"date">>), ObsId(<<"note">>), ObsId(<<"memo">>),
    <<Seg("Obs"), SliceSeg("note", "old")>>, <<Seg("Obs"), SliceSeg("note", "new")>>,
    <<Seg("Pat")>>, <<Seg("Pat"), Seg("text")>> }

IdsOf(elements) == {elements[i].id : i \in DOMAIN elements}

NoBranch == [err |-> "none"]

RewriteInit ==
  /\ branch \in Branches
  /\ fromPrefix \in IdsOf(branch)
  /\ viaPrefix \in Prefixes
  /\ toPrefix \in Prefixes
  /\ onceElements = <<>> /\ twiceElements = <<>> /\ directElements = <<>>
  /\ onceNode = NoBranch /\ twiceNode = NoBranch /\ directNode = NoBranch
  /\ wpc = [chain |-> 0, direct |-> 0]

RewriteIdle ==
  /\ branch = <<>>
  /\ fromPrefix = <<>> /\ viaPrefix = <<>> /\ toPrefix = <<>>
  /\ onceElements = <<>> /\ twiceElements = <<>> /\ directElements = <<>>
  /\ onceNode = NoBranch /\ twiceNode = NoBranch /\ directNode = NoBranch
  /\ wpc = [chain |-> 2, direct |-> 1]

\* rewriteElementPaths and rewriteNodePaths of the branch, from fromPrefix to
\* viaPrefix.
RewriteOnce ==
  /\ UNCHANGED <<sfVars, cacheVars, diffVars, pkgVars, mergeVars, fetchVars>>
  /\ wpc.chain = 0
  /\ onceElements' = rewriteElementPaths(branch, viaPrefix, fromPrefix)
  /\ onceNode' = rewriteNodePaths(toTree(branch).tree, viaPrefix, fromPrefix)
  /\ wpc' = [wpc EXCEPT !.chain = 1]
  /\ UNCHANGED <<branch, fromPrefix, viaPrefix, toPrefix, twiceElements, twiceNode,
                 directElements, directNode>>

\* The same of what RewriteOnce returned, from viaPrefix to toPrefix; the
\* error of the first call when it threw.
RewriteTwice ==
  /\ UNCHANGED <<sfVars, cacheVars, diffVars, pkgVars, mergeVars, fetchVars>>
  /\ wpc.chain = 1
  /\ twiceElements' = rewriteElementPaths(onceElements, toPrefix, viaPrefix)
  /\ twiceNode' = IF onceNode.err # "" THEN onceNode
                  ELSE rewriteNodePaths(onceNode.tree, toPrefix, viaPrefix)
  /\ wpc' = [wpc EXCEPT !.chain = 2]
  /\ UNCHANGED <<branch, fromPrefix, viaPrefix, toPrefix, onceElements, onceNode,
                 directElements, directNode>>

\* The same of the branch, from fromPrefix to toPrefix.
RewriteDirect ==
  /\ UNCHANGED <<sfVars, cacheVars, diffVars, pkgVars, mergeVars, fetchVars>>
  /\ wpc.direct = 0
  /\ directElements' = rewriteElementPaths(branch, toPrefix, fromPrefix)
  /\ directNode' = rewriteNodePaths(toTree(branch).tree, toPrefix, fromPrefix)
  /\ wpc' = [wpc EXCEPT !.direct = 1]
  /\ UNCHANGED <<branch, fromPrefix, viaPrefix, toPrefix, onceElements, onceNode,
                 twiceElements, twiceNode>>

RewriteNext == RewriteOnce \/ RewriteTwice \/ RewriteDirect

(***************************************************************************)
(* Part V : the definition fetcher and the objects it hands out            *)
(*                                                                         *)
(* An ElementDefinition object is a place in the heap; an array of them is *)
(* the sequence of their places.  Copying an element ({...el}) makes a new *)
(* place with the same keys, assigning or deleting a key changes the place *)
(* it is done on, for every array that holds it.  The fetcher of one       *)
(* generate() call is used by applyDiffs only, whose awaits follow one     *)
(* another: a fetch ends before the next step starts.                      *)
(***************************************************************************)

\* An element of the library or of the working snapshot; contentReference
\* is "" when the key is left out.  A type that names a profile is written
\* as the url of its first profile.
WithContentReference(element, contentReference) ==
  element @@ [contentReference |-> contentReference]

Plain(elements) == [i \in DOMAIN elements |-> WithContentReference(elements[i], "")]

\* The snapshot of the resource the profile is derived from; Obs.part
\* refers to the content of Obs.range.
ObsSnapshot ==
  << WithContentReference([Element(ObsId(<<>>), <<>>, "*")
                             EXCEPT !.extension = TRUE,
                                    !.constraint = <<[key |-> "dom-1", source |-> ""]>>], ""),
     WithContentReference(Element(ObsId(<<"range">>), <<"BackboneElement">>, "*"), ""),
     WithContentReference(Element(ObsId(<<"range", "low">>), <<"Quantity">>, "1"), ""),
     WithContentReference(Element(ObsId(<<"part">>), <<>>, "*"), "#Obs.range"),
     WithContentReference(Element(ObsId(<<"value">>), <<"http://p">>, "1"), ""),
     WithContentReference(Element(ObsId(<<"amount">>), <<"http://q">>, "1"), "") >>

TypeKeys == {"Quantity", "Obs"}
ReferenceKeys == {"#Obs.range"}
UrlKeys == {"http://q", "http://p"}
FetchKeys == TypeKeys \cup ReferenceKeys \cup UrlKeys

\* A snapshot of the core library, with the constraint of its root.
CoreSnapshot(type) ==
  [Plain(getBaseType(type)) EXCEPT ![1].constraint = <<[key |-> "ele-1", source |-> ""]>>]

\* fpe.resolve of a base type: its snapshot and its url.
fpeResolveType(type) == IF type = "Obs" THEN ObsSnapshot ELSE CoreSnapshot(type)
urlOfType(type) == IF type = "Obs" THEN "http://o" ELSE "http://q"

\* identifier.substring(1) and elementId.split('.')[0] of getContentReference.
elementIdOf(identifier) == IF identifier = "#Obs.range" THEN ObsId(<<"range">>) ELSE <<>>
baseTypeOf(identifier) == IF identifier = "#Obs.range" THEN "Obs" ELSE ""

\* fpe.resolve of a url: http://q is the base type Quantity (derivation
\* specialization), http://p a profile of it whose snapshot the injected
\* snapshotFetcher returns.
derivationOf(url) == IF url = "http://q" THEN "specialization" ELSE "constraint"
snapshotOfUrl(url) ==
  IF url = "http://q" THEN CoreSnapshot("Quantity")
  ELSE [CoreSnapshot("Quantity") EXCEPT ![1].constraint[1].source = "http://q",
                                        ![2].short = "p"]

\* addSourceToConstraints: ({ source: sourceUrl, ...constraint }).
addSourceToConstraints(constraints, sourceUrl) ==
  [j \in DOMAIN constraints |->
     IF constraints[j].source = "" THEN [constraints[j] EXCEPT !.source = sourceUrl]
     ELSE constraints[j]]

\* migrateElements: the keys of every element, with the source of its
\* constraints.  The elements of this library hold no markdown links, and
\* the extensions of a root are of the kind that is inherited.
migrateElements(elements, sourceUrl) ==
  [i \in DOMAIN elements |->
     [elements[i] EXCEPT !.constraint = addSourceToConstraints(@, sourceUrl)]]

\* New objects holding the given values, after the ones the heap holds.
alloc(h, values) ==
  [heap |-> h \o values, refs |-> [i \in DOMAIN values |-> Len(h) + i]]

deref(h, refs) == [i \in DOMAIN refs |-> h[refs[i]]]

\* Variant of copyRewritten that assigns id and path on the elements given.
rewriteInPlace(h, refs, toId, fromId) ==
  LET rewritten == rewriteElementPaths(deref(h, refs), toId, fromId)
  IN  [heap |-> [p \in DOMAIN h |->
                   IF \E i \in DOMAIN refs : refs[i] = p
                   THEN rewritten[CHOOSE i \in DOMAIN refs : refs[i] = p]
                   ELSE h[p]],
       refs |-> refs]

\* rewriteElementPaths on objects: elements.map(el => ({...el, id, path})).
copyRewritten(h, refs, toId, fromId) ==
  alloc(h, rewriteElementPaths(deref(h, refs), toId, fromId))

Missing == <<>>

\* getBaseType(type), lines 39-58.
fetchBaseType(h, cache, type) ==
  IF cache[type] # Missing THEN [heap |-> h, cache |-> cache, refs |-> cache[type]]
  ELSE LET made == alloc(h, migrateElements(fpeResolveType(type), urlOfType(type)))
       IN  [heap |-> made.heap, cache |-> [cache EXCEPT ![type] = made.refs],
            refs |-> made.refs]

\* getContentReference(identifier), lines 64-83.
fetchContentReference(h, cache, identifier) ==
  IF cache[identifier] # Missing
  THEN [heap |-> h, cache |-> cache, refs |-> cache[identifier]]
  ELSE LET allElements == fetchBaseType(h, cache, baseTypeOf(identifier))
           matchingElements ==
             SelectSeq(allElements.refs,
                       LAMBDA r : StartsWith(allElements.heap[r].id, elementIdOf(identifier)))
       IN  [heap |-> allElements.heap,
            cache |-> [allElements.cache EXCEPT ![identifier] = matchingElements],
            refs |-> matchingElements]

\* getByUrl(url), lines 93-126.
fetchByUrl(h, cache, url) ==
  IF cache[url] # Missing THEN [heap |-> h, cache |-> cache, refs |-> cache[url]]
  ELSE LET made == alloc(h, migrateElements(snapshotOfUrl(url), url))
       IN  [heap |-> made.heap, cache |-> [cache EXCEPT ![url] = made.refs],
            refs |-> made.refs]

fetch(h, cache, key) ==
  IF key \in TypeKeys THEN fetchBaseType(h, cache, key)
  ELSE IF key \in ReferenceKeys THEN fetchContentReference(h, cache, key)
  ELSE fetchByUrl(h, cache, key)

NoEntry == [refs |-> Missing, values |-> <<>>]

\* What was stored under each key when the key was set for the first time.
remember(first, h, cache) ==
  [k \in FetchKeys |->
     IF first[k] = NoEntry /\ cache[k] # Missing
     THEN [refs |-> cache[k], values |-> deref(h, cache[k])]
     ELSE first[k]]

\* The ids the entries of a differential may have.
DiffIdPool ==
  { ObsId(<<"part">>), ObsId(<<"part", "low">>), ObsId(<<"part", "low", "unit">>),
    ObsId(<<"range", "low", "unit">>), ObsId(<<"value", "unit">>),
    ObsId(<<"amount", "unit">>),
    <<Seg("Obs"), SliceSeg("range", "s")>>,
    <<Seg("Obs"), SliceSeg("range", "s"), Seg("low"), Seg("unit")>>,
    ObsId(<<"bogus">>) }

FetchInit ==
  /\ heap = <<>>
  /\ elementCache = [k \in FetchKeys |-> Missing]
  /\ firstStored = [k \in FetchKeys |-> NoEntry]
  /\ updatedElements = <<>>
  /\ diffIds \in UNION {[1..n -> DiffIdPool] : n \in 0..MaxDiffs}
  /\ diffAt = 0
  /\ lastFetch = [key |-> "", refs |-> <<>>, hit |-> FALSE]
  /\ fpc = "new"

FetchIdle ==
  /\ heap = <<>>
  /\ elementCache = [k \in FetchKeys |-> Missing]
  /\ firstStored = [k \in FetchKeys |-> NoEntry]
  /\ updatedElements = <<>>
  /\ diffIds = <<>>
  /\ diffAt = 0
  /\ lastFetch = [key |-> "", refs |-> <<>>, hit |-> FALSE]
  /\ fpc = "idle"

\* generate(), lines 339-342, and applyDiffs, lines 66-75: the base snapshot
\* comes from the snapshotFetcher, migrateElements copies it, and the
\* extension key of the first copy is deleted.
StartDerivation ==
  /\ UNCHANGED <<sfVars, cacheVars, diffVars, pkgVars, mergeVars, rewriteVars>>
  /\ fpc = "new"
  /\ LET made == alloc(heap, migrateElements(ObsSnapshot, urlOfType("Obs")))
     IN  /\ heap' = [made.heap EXCEPT ![made.refs[1]].extension = FALSE]
         /\ updatedElements' = made.refs
  /\ diffAt' = 1
  /\ fpc' = IF Len(diffIds) = 0 THEN "done" ELSE "applying"
  /\ UNCHANGED <<elementCache, firstStored, lastFetch, diffIds>>

\* The key expandNode fetches for a definition, lines 36-70.
keyOf(definition) ==
  IF definition.contentReference # "" THEN definition.contentReference
  ELSE IF Len(definition.type) > 1 THEN "Element"
  ELSE definition.type[1]

placeOf(h, refs, id) ==
  IF \E i \in DOMAIN refs : h[refs[i]].id = id
  THEN CHOOSE i \in DOMAIN refs : h[refs[i]].id = id
  ELSE 0

hasChildren(h, refs, i) ==
  \E j \in DOMAIN refs : j # i /\ StartsWith(h[refs[j]].id, h[refs[i]].id)

\* The shortest prefix of the id that is the id of no element.
missingPrefix(h, refs, id) ==
  LET n == CHOOSE k \in 1..Len(id) :
             /\ placeOf(h, refs, SubSeq(id, 1, k)) = 0
             /\ \A m \in 1..(k - 1) : placeOf(h, refs, SubSeq(id, 1, m)) # 0
  IN  SubSeq(id, 1, n)

\* ensureChild, lines 44-52, on an element without children: expandNode
\* fetches the snapshot of its contentReference or type, deletes the
\* contentReference of the definition, rewrites the snapshot to the id of
\* the node and takes the children of the tree; injectElementBlock puts the
\* definition and those children in the place of the element.
Expand(i) ==
  LET definition == heap[updatedElements[i]]
      got == fetch(heap, elementCache, keyOf(definition))
      cleared == IF definition.contentReference # ""
                 THEN [got.heap EXCEPT ![updatedElements[i]].contentReference = ""]
                 ELSE got.heap
      rewritten == copyRewritten(cleared, got.refs, definition.id, cleared[got.refs[1]].id)
  IN  IF (definition.contentReference = "" /\ Len(definition.type) = 0)
         \/ keyOf(definition) \notin FetchKeys
      THEN /\ fpc' = "threw"
           /\ UNCHANGED <<heap, elementCache, firstStored, updatedElements, lastFetch>>
      ELSE /\ heap' = rewritten.heap
           /\ elementCache' = got.cache
           /\ firstStored' = remember(firstStored, got.heap, got.cache)
           /\ lastFetch' = [key |-> keyOf(definition), refs |-> got.refs,
                            hit |-> elementCache[keyOf(definition)] # Missing]
           /\ updatedElements' =
                SubSeq(updatedElements, 1, i) \o Tail(rewritten.refs)
                  \o SubSeq(updatedElements, i + 1, Len(updatedElements))
           /\ UNCHANGED fpc

\* ensureChild, lines 130-143: the new slice is the head slice rewritten to
\* the id of the slice; slicing is deleted from its definition and sliceName
\* set on it, and the slice follows the block of the element.
CreateSlice(i, sliceName) ==
  LET headSlice == heap[updatedElements[i]]
      newId == [headSlice.id EXCEPT ![Len(headSlice.id)].s = sliceName]
      block == SelectSeq(updatedElements, LAMBDA r : StartsWith(heap[r].id, headSlice.id))
      last == i + Len(block) - 1
      newSlice == copyRewritten(heap, block, newId, headSlice.id)
  IN  /\ heap' = [newSlice.heap EXCEPT ![newSlice.refs[1]].slicing = FALSE,
                                       ![newSlice.refs[1]].sliceName = sliceName]
      /\ updatedElements' =
           SubSeq(updatedElements, 1, last) \o newSlice.refs
             \o SubSeq(updatedElements, last + 1, Len(updatedElements))
      /\ UNCHANGED <<elementCache, firstStored, lastFetch, fpc>>

\* ensureBranch and ensureChild for the next segment of the diff's id that
\* has no element yet: the parent is expanded, or the slice is made; a
\* child that its expanded parent does not have is an error.
EnsureNext ==
  /\ UNCHANGED <<sfVars, cacheVars, diffVars, pkgVars, mergeVars, rewriteVars>>
  /\ fpc = "applying"
  /\ placeOf(heap, updatedElements, diffIds[diffAt]) = 0
  /\ LET missing == missingPrefix(heap, updatedElements, diffIds[diffAt])
         childId == missing[Len(missing)]
         parent == placeOf(heap, updatedElements, SubSeq(missing, 1, Len(missing) - 1))
         element == placeOf(heap, updatedElements,
                            [missing EXCEPT ![Len(missing)] = Seg(childId.n)])
     IN  IF ~hasChildren(heap, updatedElements, parent) THEN Expand(parent)
         ELSE IF childId.s # "" /\ element # 0 THEN CreateSlice(element, childId.s)
         ELSE /\ fpc' = "threw"
              /\ UNCHANGED <<heap, elementCache, firstStored, updatedElements, lastFetch>>
  /\ UNCHANGED <<diffIds, diffAt>>

\* applySingleDiff, lines 19-34, of a diff that sets short on the element:
\* the merged element is a new object that takes the place of the old one.
MergeDiff ==
  /\ UNCHANGED <<sfVars, cacheVars, diffVars, pkgVars, mergeVars, rewriteVars>>
  /\ fpc = "applying"
  /\ placeOf(heap, updatedElements, diffIds[diffAt]) # 0
  /\ LET index == placeOf(heap, updatedElements, diffIds[diffAt])
         baseElement == heap[updatedElements[index]]
         diffElement == Diff(baseElement.id, baseElement.path, "", <<>>, "m")
         made == alloc(heap, <<mergeElement(baseElement, diffElement)>>)
     IN  /\ heap' = made.heap
         /\ updatedElements' = [updatedElements EXCEPT ![index] = made.refs[1]]
  /\ diffAt' = diffAt + 1
  /\ fpc' = IF diffAt = Len(diffIds) THEN "done" ELSE "applying"
  /\ UNCHANGED <<elementCache, firstStored, lastFetch, diffIds>>

FetchNext == StartDerivation \/ EnsureNext \/ MergeDiff

LibIdle == PkgIdle /\ MergeIdle /\ RewriteIdle /\ FetchIdle

(***************************************************************************)
(* Specifications                                                          *)
(***************************************************************************)

\* singleFlight callers over one key, lockfile and cache file.
SFStart == SFInit /\ CacheIdle /\ DiffIdle /\ LibIdle

SpecSF == SFStart /\ [][SFNext]_vars

LiveStart == SFInitAfter(MaxCalls - 1) /\ CacheIdle /\ DiffIdle /\ LibIdle

\* The last call of every caller, under the process scheduler: every caller
\* that can take a step does, generators and fs calls complete, and the
\* clock advances.
LiveSF ==
  /\ LiveStart /\ [][SFNext]_vars
  /\ (\A c \in Callers : WF_vars(Step(c))) /\ WF_vars(Tick)

\* One engine: create(), then getSnapshot calls one after the other.
CacheStart == CacheInit /\ SFIdle /\ DiffIdle /\ LibIdle

SpecCache == CacheStart /\ [][CacheNext]_vars

\* Two engines in 'lazy' or 'ensure' mode whose calls interleave.
RaceStart == RaceInit /\ SFIdle /\ DiffIdle /\ LibIdle

SpecRace == RaceStart /\ [][RaceNext]_vars

\* applyDiffs on a stored snapshot and a differential, and the round trip of
\* a sequence through toTree and fromTree.
DiffStart == DiffInit /\ SFIdle /\ CacheIdle /\ LibIdle

SpecDiff == DiffStart /\ [][DiffNext]_vars

\* resolveBasePackage on a package, its direct dependencies and its manifest.
PkgStart == PkgInit /\ SFIdle /\ CacheIdle /\ DiffIdle /\ MergeIdle /\ RewriteIdle /\ FetchIdle

SpecPkg == PkgStart /\ [][PkgNext]_vars

\* mergeElement on a base element and a diff element.
MergeStart == MergeInit /\ SFIdle /\ CacheIdle /\ DiffIdle /\ PkgIdle /\ RewriteIdle /\ FetchIdle

SpecMerge == MergeStart /\ [][MergeNext]_vars

\* A branch rewritten from one prefix to another in two calls and in one.
RewriteStart == RewriteInit /\ SFIdle /\ CacheIdle /\ DiffIdle /\ PkgIdle /\ MergeIdle /\ FetchIdle

SpecRewrite == RewriteStart /\ [][RewriteNext]_vars

\* One generate() call: its fetcher, and applyDiffs expanding, slicing and
\* merging elements of the working snapshot.
FetchStart ==
  FetchInit /\ SFIdle /\ CacheIdle /\ DiffIdle /\ PkgIdle /\ MergeIdle /\ RewriteIdle

SpecFetch == FetchStart /\ [][FetchNext]_vars

(***************************************************************************)
(* Part I : properties                                                     *)
(***************************************************************************)

Done(c) == pc[c] = "idle" /\ result[c].how # "none"
RanGenerator(c) == result[c].how \in {"generator", "threw"}
Overlap(a, b) == b \in overlapped[a] \/ a \in overlapped[b]
Waiting(c) == pc[c] \in {"waitCache", "waitLock", "waitSleep"}

\* C1: two overlapping calls of singleFlight made in the same process with
\* the same key: exactly one of them runs the generator and the other one
\* ends with the result of that run.
C1_OneGeneratorPerProcess ==
  \A a, b \in Callers :
    (a # b /\ ProcOf(a) = ProcOf(b) /\ Overlap(a, b) /\ Done(a) /\ Done(b))
      => \/ RanGenerator(a) /\ ~RanGenerator(b) /\ result[b].value = a
         \/ RanGenerator(b) /\ ~RanGenerator(a) /\ result[a].value = b

\* C3: two processes race for the same cache file, getCached is passed, one
\* of them has generated and written the file and the other one, which
\* could not acquire the lock and waited, has returned: it has returned the
\* content of that file.
C3_LoserReadsWrittenFile ==
  \A a, b \in Callers :
    (/\ ProcOf(a) # ProcOf(b) /\ Overlap(a, b) /\ Done(a) /\ Done(b)
     /\ options.disk /\ options.getCached /\ attempt[b] = 2
     /\ result[a].how = "generator" /\ cacheFile = a)
      => result[b] = [how |-> "cached", value |-> cacheFile]

Corrupt == {"empty", "blank", "truncated"}
Returned(e) == e \in engines /\ stack[e] = <<>> /\ lastCall[e] # NoCall
Created(e) == e \in engines /\ epc[e] \in {"ready", "call"}

\* C2: two engines that share the cache directory and start with no valid
\* file at a cache path: at most one of them moves a file onto that path.
C2_AtMostOneWriter == \A f \in ProfileSet : Cardinality(writers[f]) <= 1

C6_NoneModeWritesNothing ==
  [][(\A e \in engines : cacheMode[e] = "none")
       => (files' = files /\ cacheDir' = cacheDir /\ tmpFiles' = tmpFiles)]_vars

C6_NoneModeGenerated ==
  \E e \in Engines :
    /\ Returned(e) /\ cacheMode[e] = "none" /\ gets[e] = MaxGets
    /\ lastCall[e].f = "f2" /\ lastCall[e].how = "generated" /\ ~cacheDir

\* C7: in 'none' mode every getSnapshot call for a profile has run the
\* generator and returns what it generated; no call, nested ones included,
\* reads a cache file.
C7_NoneModeAlwaysGenerates ==
  \A e \in Engines :
    (e \in engines /\ cacheMode[e] = "none")
      => /\ \A i \in 1..Len(stack[e]) :
              stack[e][i].seen = "unread"
                /\ stack[e][i].pc \notin {"exists", "readFile", "remove"}
         /\ (Returned(e) /\ lastCall[e].f \in ProfileSet)
              => /\ lastCall[e].ran /\ lastCall[e].seen = "unread"
                 /\ lastCall[e].how \in {"generated", "threw"}

C7_NoneModeIgnoresFile ==
  \E e \in Engines :
    /\ Returned(e) /\ cacheMode[e] = "none" /\ lastCall[e].f = "f1"
    /\ files["f1"] = "dummy" /\ lastCall[e].how = "generated"
    /\ lastCall[e].value = "generated"

\* C8: one engine in 'lazy' mode.  A getSnapshot call that found no cache
\* file and returned has run the generator and moved what it returns onto
\* the cache path; a getSnapshot call for a profile whose file this engine
\* wrote in an earlier call returns the content of the file and has not run
\* the generator.
C8_LazyWritesThenReads ==
  \A e \in Engines :
    (Returned(e) /\ cacheMode[e] = "lazy" /\ lastCall[e].kind = "get"
       /\ lastCall[e].f \in ProfileSet)
      => /\ (lastCall[e].seen = Absent /\ lastCall[e].how # "threw")
              => /\ lastCall[e].ran /\ lastCall[e].wrote
                 /\ lastCall[e].how = "generated"
                 /\ files[lastCall[e].f] = lastCall[e].value
         /\ (e \in writers[lastCall[e].f] /\ ~lastCall[e].wrote)
              => /\ ~lastCall[e].ran
                 /\ lastCall[e].how = "cached"
                 /\ lastCall[e].value = files[lastCall[e].f]

C8_SecondCallServedFromCache ==
  \E e \in Engines :
    /\ Returned(e) /\ cacheMode[e] = "lazy" /\ gets[e] = 2
    /\ lastCall[e].f = "f1" /\ e \in writers["f1"]
    /\ lastCall[e].how = "cached" /\ lastCall[e].seen = "generated"

\* C9: with every engine in 'lazy' or 'ensure' mode no step changes or
\* removes a cache file that parses, and a move that finds the destination
\* present leaves it as it is and does not fail the write.
C9_ParseableFileKept ==
  [][(\A e \in engines : cacheMode[e] \in {"lazy", "ensure"})
       => /\ \A f \in ProfileSet : Parses(files[f]) => files'[f] = files[f]
          /\ \A e \in engines :
               (At(e, "move") /\ tmpFiles[e] /\ files[Top(e).f] # Absent
                  /\ stack'[e] # stack[e])
                 => ~stack'[e][Len(stack'[e])].failed]_vars

InErrors(e, f) == \E i \in 1..Len(errors[e]) : errors[e][i] = f

SnapshotFiles == {p \in CachePaths : files[p] # Absent}

C12_BatchNeverAborts ==
  \A e \in Engines :
    (e \in engines /\ cacheMode[e] \in {"ensure", "rebuild"})
      => /\ epc[e] = "precache"
              => /\ logged[e] = 0
                 /\ Len(errors[e]) + Len(queue[e]) <= Len(Profiles)
                 /\ \A i \in 1..Len(errors[e]) :
                      \A j \in 1..Len(queue[e]) : errors[e][i] # queue[e][j]
         /\ Created(e)
              => /\ queue[e] = <<>>
                 /\ logged[e] = (IF errors[e] # <<>> THEN 1 ELSE 0)
                 /\ \A f \in ProfileSet : InErrors(e, f) \/ files[f] # Absent
         /\ (epc[e] = "ready" /\ gets[e] = 0)
              => /\ lastCall[e].kind = "ensure"
                 /\ lastCall[e].f = Profiles[Len(Profiles)]

C12_BatchWentOnAfterFailure ==
  \E e \in Engines :
    /\ epc[e] = "ready" /\ cacheMode[e] = "rebuild" /\ gets[e] = 0
    /\ errors[e] = <<"f1">> /\ logged[e] = 1
    /\ files["f2"] = "stored" /\ lastCall[e].f = "f2"

\* C13: a call that ran generate() for a profile with a differential that
\* applyDiffs cannot apply returns the snapshot stored in the profile's own
\* StructureDefinition when there is one, and throws when there is none.
C13_FallbackToStoredSnapshot ==
  \A e \in Engines :
    (Returned(e) /\ lastCall[e].f \in ProfileSet /\ lastCall[e].ran
       /\ sds[lastCall[e].f].differential /\ ~sds[lastCall[e].f].applies)
      => IF sds[lastCall[e].f].snapshot
         THEN lastCall[e].how = "generated" /\ lastCall[e].value = "stored"
         ELSE lastCall[e].how = "threw"

C13_FellBack ==
  \E e \in Engines :
    /\ Returned(e) /\ lastCall[e].kind = "get" /\ lastCall[e].f = "f1"
    /\ lastCall[e].ran /\ ~sds["f1"].applies /\ sds["f1"].snapshot
    /\ lastCall[e].value = "stored" /\ cacheMode[e] = "lazy" /\ files["f1"] = "stored"

\* C17: a call that read a cache file which parses but has no resourceType
\* has run the generator and does not return the content of the file.
C17_NoResourceTypeRejected ==
  \A e \in Engines :
    (Returned(e) /\ lastCall[e].seen = "noType")
      => lastCall[e].ran /\ lastCall[e].how # "cached"

(***************************************************************************)
(* Part I : properties of the lockfile                                     *)
(***************************************************************************)

C19_OneHolderAcrossProcesses ==
  ~outlasted
    => \A a, b \in Callers :
         (HoldsLock(a) /\ HoldsLock(b)) => ProcOf(a) = ProcOf(b)

\* C20: a releasing call whose step finds at the lock path a lockfile of
\* another process leaves that file in place (stated for the runs in which
\* no holder kept the lock past the TTL).
C20_ReleaseLeavesForeignLock ==
  [][\A c \in Callers :
       ( /\ ~outlasted
         /\ pc[c] \in {"relRead", "relRemove"}
         /\ pc'[c] = "idle"
         /\ lockFile # NoLock
         /\ lockFile.pid # ProcOf(c) )
         => lockFile' = lockFile]_vars

(***************************************************************************)
(* Part I : properties of the in-process map                               *)
(***************************************************************************)

\* c runs the execution promise it created (lines 300-309).
Executing(c) == pc[c] \in {"generating", "relRead", "relRemove"}

\* C29: when the execution of a call ends with the generator's exception,
\* every caller of the process that awaits its promise ends with that
\* rejection and the map of the process has no entry afterwards; a call made
\* while the map has no entry never awaits an earlier execution, and without
\* disk locking it runs the generator at once.
C29_FailureNotRemembered ==
  [][\A c \in Callers :
       /\ (Executing(c) /\ pc'[c] = "idle" /\ result'[c].how = "threw")
            => /\ inflightPromises'[ProcOf(c)] = NoPromise
               /\ \A x \in Callers :
                    (pc[x] = "awaiting" /\ awaiting[x] = c)
                      => pc'[x] = "idle" /\ result'[x] = [how |-> "rejected", value |-> c]
       /\ (pc[c] = "idle" /\ pc'[c] # "idle" /\ inflightPromises[ProcOf(c)] = NoPromise)
            => /\ pc'[c] # "awaiting"
               /\ ~options.disk => pc'[c] = "generating"]_vars

\* The generator of c1 threw, c2 which awaited it got the rejection, and the
\* next call of c1 runs the generator.
C29_GeneratorRunsAgain ==
  /\ result["c2"] = [how |-> "rejected", value |-> "c1"] /\ pc["c2"] = "idle"
  /\ calls["c1"] = 2 /\ pc["c1"] = "generating"
  /\ inflightPromises["p1"] = "c1"

\* C30: a call that runs the generator has its promise registered in the map
\* of its process, and the map of a process without a call in flight is
\* empty (stated for the runs in which no holder kept the lock past the TTL).
C30_MapHoldsRunningCall ==
  ~outlasted
    => /\ \A c \in Callers : Executing(c) => inflightPromises[ProcOf(c)] = c
       /\ \A p \in Procs :
            (\A c \in Callers : ProcOf(c) = p => ~InFlight(c))
              => inflightPromises[p] = NoPromise

(***************************************************************************)
(* Part III : properties                                                   *)
(***************************************************************************)
AliasNames == {"valueQuantity", "valueString"}

\* The segment addresses a polymorphic element by the name of one type.
IsAliasSegment(seg) ==
  seg.n \in AliasNames \/ (seg.n \in PolyNames /\ seg.s \in AliasNames)

HasAliasEntry ==
  \E i \in DOMAIN differential :
    \E j \in DOMAIN differential[i].id : IsAliasSegment(differential[i].id[j])

\* C14: when the differential has an entry that addresses a polymorphic
\* element through a type alias, every element of the sequence applyDiffs
\* returns that carries a sliceName has an id ending in ':' + sliceName.
C14_SliceNameIsIdSuffix ==
  (dpc = "done" /\ HasAliasEntry)
    => \A i \in DOMAIN workingSnapshot :
         workingSnapshot[i].sliceName # ""
           => EndsWithSlice(workingSnapshot[i].id, workingSnapshot[i].sliceName)

C14_AliasSliceNameCleared ==
  /\ dpc = "done"
  /\ \E i \in DOMAIN differential :
       differential[i].id = ObsId(<<"valueQuantity">>) /\ differential[i].sliceName # ""
  /\ \E i \in DOMAIN workingSnapshot :
       /\ workingSnapshot[i].id = ObsId(<<"value[x]">>)
       /\ workingSnapshot[i].sliceName = ""
  /\ \E i \in DOMAIN workingSnapshot : workingSnapshot[i].sliceName = "s"

\* C15: toTree succeeds on a stored snapshot and on a sequence applyDiffs
\* returned, and fromTree of the tree is the same sequence.
C15_RoundTrip ==
  /\ rpc # "threw"
  /\ rpc = "flat" => roundtrip = compare

C15_RoundTripOfGeneratedSlice ==
  /\ rpc = "flat"
  /\ dpc = "done"
  /\ compare = workingSnapshot
  /\ \E i \in DOMAIN compare : compare[i].id = <<Seg("Obs"), SliceSeg("note", "s"), Seg("text")>>
  /\ roundtrip = compare

\* The types the stored snapshot declares for Obs.value[x].
DeclaredTypes ==
  {snapshotIn[i].type[j] : <<i, j>> \in
     {<<i, j>> \in (DOMAIN snapshotIn) \X (1..2) :
        snapshotIn[i].id = ObsId(<<"value[x]">>) /\ j \in DOMAIN snapshotIn[i].type}}

ShortcutEntry(type) ==
  \E i \in DOMAIN differential :
    /\ Len(differential[i].id) >= 2
    /\ differential[i].id[2] = Seg("value" \o initCap(type))

ValidFlatten(elements) ==
  /\ toTree(elements).err = ""
  /\ ~MissingDefinition(toTree(elements).tree)
  /\ fromTree(toTree(elements).tree) = elements

\* C21: after every step of ensureBranch (one ensureChild) and every merge
\* of applyDiffs, toTree succeeds on the working sequence and fromTree of that
\* tree is the working sequence.
C21_WorkingSequenceIsFlatten ==
  lastStep \in {"ensureChild", "merge"} => ValidFlatten(workingSnapshot)

\* A slice was made from the head slice, the slice was expanded, and the
\* entry was merged into its child.
C21_SliceBranchBuilt ==
  /\ dpc = "done"
  /\ lastStep = "merge"
  /\ branched
  /\ \E i \in DOMAIN workingSnapshot :
       /\ workingSnapshot[i].id = <<Seg("Obs"), SliceSeg("note", "s"), Seg("text")>>
       /\ workingSnapshot[i].short = "x"
  /\ ValidFlatten(workingSnapshot)

\* C22: a step of applyDiffs only appends to the path rewrite map: the
\* entries it had stay at their places with their targets.
C22_AliasMapAppendOnly ==
  [][/\ Len(rewriteMap') >= Len(rewriteMap)
     /\ SubSeq(rewriteMap', 1, Len(rewriteMap)) = rewriteMap]_vars

\* The aliases of two entries are in the map in the order of the entries.
C22_TwoAliasesInOrder ==
  /\ dpc = "done"
  /\ Len(differential) = 2
  /\ differential[1].id = ObsId(<<"valueQuantity", "unit">>)
  /\ differential[2].id = <<Seg("Obs"), SliceSeg("date", "issued")>>
  /\ Len(rewriteMap) = 2
  /\ rewriteMap[1].k = ObsId(<<"valueQuantity">>)
  /\ rewriteMap[2].k = <<Seg("Obs"), SliceSeg("date", "issued")>>

\* The id rewritten through the map for as long as it is a key of it.
RECURSIVE rewriteFully(_, _, _)
rewriteFully(id, map, fuel) ==
  IF fuel = 0 \/ ~MapHas(map, id) THEN id
  ELSE rewriteFully(MapGet(map, id).id, map, fuel - 1)

\* C23: in every pass of the loop of ensureBranch, ensureChild is called
\* with the canonical parent id rewritten through the map until no entry
\* applies; the parent it is called with is not a key of the map.
C23_ParentFullyRewritten ==
  [][(dpc = "branch" /\ (dpc' # dpc \/ segIndex' # segIndex))
       => /\ calledParent' = rewriteFully(canonicalParentId, rewriteMap, Len(rewriteMap))
          /\ ~MapHas(rewriteMap, calledParent')]_vars

\* ensureChild was called with Obs.value[x] for the parent Obs.valueQuantity.
C23_ParentWasRewritten ==
  /\ dpc = "merge"
  /\ differential[diffIndex].id = ObsId(<<"valueQuantity", "unit">>)
  /\ calledParent = ObsId(<<"value[x]">>)
  /\ MapHas(rewriteMap, ObsId(<<"valueQuantity">>))

\* C28: when ensureBranch has returned for an entry, the id of the entry as
\* rewrite returns it is the id of an element of the working sequence.
C28_MergeFindsRewrittenId ==
  (dpc = "merge" /\ branched)
    => elementExists(workingSnapshot,
                     rewrite(differential[diffIndex].id, "id", rewriteMap))


(***************************************************************************)
(* Part IV : properties                                                    *)
(***************************************************************************)

\* The dependencies that are releases of a base library.
baseLibraryDeps(deps) ==
  SelectSeq(deps, LAMBDA d : \E v \in DOMAIN fhirCorePackages : fhirCorePackages[v].id = d.id)

\* C27: when the only base-library dependency of the package is
\* hl7.fhir.r4.core@4.0.0, resolveBasePackage returns hl7.fhir.r4.core@4.0.1.
C27_R4CoreNormalised ==
  (/\ baseFhirPackage # NotResolved
   /\ baseLibraryDeps(<<sourcePackage>>) = <<>>
   /\ baseLibraryDeps(dependencies) = <<Pkg("hl7.fhir.r4.core", "4.0.0")>>)
    => baseFhirPackage = ReturnedPkg(Pkg("hl7.fhir.r4.core", "4.0.1"))

\* C24: an element merged with itself is that element in every key but
\* constraint, condition and mapping, and its constraint array is twice as
\* long as the element's.
C24_MergeWithItself ==
  (mpc = "merged" /\ mergeDiff = mergeBase)
    => /\ [mergeResult EXCEPT !.constraint = <<>>, !.condition = <<>>, !.mapping = <<>>]
          = [mergeBase EXCEPT !.constraint = <<>>, !.condition = <<>>, !.mapping = <<>>]
       /\ Len(mergeResult.constraint) = 2 * Len(mergeBase.constraint)

\* C24 witness: an element with two constraints, a condition and a mapping
\* was merged with itself.
C24_MergedWithItself ==
  /\ mpc = "merged"
  /\ mergeDiff = mergeBase
  /\ mergeBase.constraint = <<"ele-1", "obs-7">>
  /\ mergeBase.condition # <<>> /\ mergeBase.mapping # <<>>
  /\ mergeBase.slicing /\ mergeBase.short = "n"
  /\ mergeResult.constraint = <<"ele-1", "obs-7", "ele-1", "obs-7">>

\* The branch holds neither an id nor a path that starts with the prefix.
NewToBranch(prefix) ==
  \A i \in DOMAIN branch :
    /\ ~StartsWith(branch[i].id, prefix)
    /\ ~StartsWith(PathAsId(branch[i].path), PathAsId(removeSlices(prefix)))

RewrittenTwice == wpc = [chain |-> 2, direct |-> 1]

\* What rewriteNodePaths gave, the identities of the node objects left out.
RECURSIVE withoutKeys(_)
withoutKeys(node) ==
  [node EXCEPT !.key = 0,
               !.children = [i \in DOMAIN node.children |-> withoutKeys(node.children[i])]]

Rewritten(r) == IF r.err # "" THEN r ELSE [r EXCEPT !.tree = withoutKeys(r.tree)]

RootOfBranch(prefix) == \A i \in DOMAIN branch : StartsWith(branch[i].id, prefix)

C26_EntriesImmutable ==
  /\ \A k \in FetchKeys :
       firstStored[k] # NoEntry
         => /\ elementCache[k] = firstStored[k].refs
            /\ deref(heap, elementCache[k]) = firstStored[k].values
  /\ lastFetch.key # "" => lastFetch.refs = firstStored[lastFetch.key].refs

\* C26 witness: Obs.part was expanded by its contentReference, which was
\* deleted from the working element, Obs.part.low by its type, and their
\* elements were merged; then the fetcher was asked for 'Quantity' again and
\* returned the array it had stored.
C26_ReusedAfterChanges ==
  /\ fpc = "done"
  /\ diffIds = <<ObsId(<<"part", "low", "unit">>), ObsId(<<"range", "low", "unit">>)>>
  /\ lastFetch = [key |-> "Quantity", refs |-> firstStored["Quantity"].refs, hit |-> TRUE]
  /\ firstStored["#Obs.range"] # NoEntry /\ firstStored["Obs"] # NoEntry
  /\ \E i \in DOMAIN updatedElements :
       /\ heap[updatedElements[i]].id = ObsId(<<"part">>)
       /\ heap[updatedElements[i]].contentReference = ""
  /\ \E i \in DOMAIN updatedElements :
       /\ heap[updatedElements[i]].id = ObsId(<<"range", "low", "unit">>)
       /\ heap[updatedElements[i]].short = "m"

=============================================================================
